---------------------------- MODULE Spec2Model ----------------------------
(***************************************************************************)
(* Model of the ProductCatalog synchronisation engine:                     *)
(*   google_sheets_sync.py  GoogleSheetsSync.sync_data (normalise + merge) *)
(*   data_loader.py         DataLoader (second copy of the pipeline,       *)
(*                          delete-all-and-reinsert persistence)           *)
(*   data_service.py        DataService (upsert by article, JSON fallback) *)
(*   routes.py, admin_routes.py, scheduler.py, sheets_sync.py (triggers)   *)
(*   models.py              Product, ProductView                           *)
(*                                                                         *)
(* Text is modelled as a sequence of character tokens.  An ASCII character *)
(* is its own token; a Cyrillic letter is the token "ru_<latin>" (lower    *)
(* case) or "RU_<LATIN>" (upper case).  Values the code only stores and    *)
(* never inspects (labels such as the status text) are plain strings in    *)
(* Latin transliteration.                                                  *)
(***************************************************************************)
EXTENDS Integers, Sequences, FiniteSets, TLC

(***************************************************************************)
(* Characters and strings                                                  *)
(***************************************************************************)
LowerLetters ==
  <<"a", "b", "c", "d", "e", "f", "g", "h", "i", "j", "k", "l", "m", "n",
    "o", "p", "q", "r", "s", "t", "u", "v", "w", "x", "y", "z", "ru_a",
    "ru_b", "ru_v", "ru_g", "ru_d", "ru_e", "ru_zh", "ru_z", "ru_i", "ru_j",
    "ru_k", "ru_l", "ru_m", "ru_n", "ru_o", "ru_p", "ru_r", "ru_s", "ru_t",
    "ru_u", "ru_f", "ru_h", "ru_ts", "ru_ch", "ru_sh", "ru_sch", "ru_hard",
    "ru_y", "ru_soft", "ru_eh", "ru_yu", "ru_ya">>

UpperLetters ==
  <<"A", "B", "C", "D", "E", "F", "G", "H", "I", "J", "K", "L", "M", "N",
    "O", "P", "Q", "R", "S", "T", "U", "V", "W", "X", "Y", "Z", "RU_A",
    "RU_B", "RU_V", "RU_G", "RU_D", "RU_E", "RU_ZH", "RU_Z", "RU_I", "RU_J",
    "RU_K", "RU_L", "RU_M", "RU_N", "RU_O", "RU_P", "RU_R", "RU_S", "RU_T",
    "RU_U", "RU_F", "RU_H", "RU_TS", "RU_CH", "RU_SH", "RU_SCH", "RU_HARD",
    "RU_Y", "RU_SOFT", "RU_EH", "RU_YU", "RU_YA">>

LowerSet == {LowerLetters[i] : i \in DOMAIN LowerLetters}
UpperSet == {UpperLetters[i] : i \in DOMAIN UpperLetters}

UpperOf ==
  [c \in LowerSet |->
     UpperLetters[CHOOSE i \in DOMAIN LowerLetters : LowerLetters[i] = c]]

LowerOf ==
  [c \in UpperSet |->
     LowerLetters[CHOOSE i \in DOMAIN UpperLetters : UpperLetters[i] = c]]

Digits == {"0", "1", "2", "3", "4", "5", "6", "7", "8", "9"}

IsDigit(c) == c \in Digits

\* str.strip() and the regular expression class \s
IsSpace(c) == c \in {" ", "TAB"}

\* the regular expression class \w (letters, digits, underscore)
IsWord(c) == c \in LowerSet \cup UpperSet \cup Digits \cup {"_"}

\* str.upper()
upper(s) == [i \in DOMAIN s |-> IF s[i] \in LowerSet THEN UpperOf[s[i]] ELSE s[i]]

\* str.lower()
lower(s) == [i \in DOMAIN s |-> IF s[i] \in UpperSet THEN LowerOf[s[i]] ELSE s[i]]

\* sub occurs in s at position i (1-based)
MatchAt(sub, s, i) ==
  /\ i >= 1
  /\ i + Len(sub) - 1 <= Len(s)
  /\ \A k \in 1..Len(sub) : s[i + k - 1] = sub[k]

\* Python's  sub in s
Contains(sub, s) == \E i \in 1..(Len(s) + 1) : MatchAt(sub, s, i)

\* any(x in s for x in subs)
ContainsAny(subs, s) == \E k \in DOMAIN subs : Contains(subs[k], s)

\* str.replace(a, b) for single characters
Replace(s, a, b) == [i \in DOMAIN s |-> IF s[i] = a THEN b ELSE s[i]]

\* str.strip()
strip(s) ==
  LET keep == {i \in DOMAIN s : ~IsSpace(s[i])}
  IN  IF keep = {} THEN <<>>
      ELSE LET lo == CHOOSE i \in keep : \A j \in keep : i <= j
               hi == CHOOSE i \in keep : \A j \in keep : j <= i
           IN  SubSeq(s, lo, hi)

DigitVal(c) ==
  CASE c = "0" -> 0 [] c = "1" -> 1 [] c = "2" -> 2 [] c = "3" -> 3
    [] c = "4" -> 4 [] c = "5" -> 5 [] c = "6" -> 6 [] c = "7" -> 7
    [] c = "8" -> 8 [] c = "9" -> 9

\* value of a string of decimal digits (0 for the empty string)
RECURSIVE NatOf(_)
NatOf(ds) ==
  IF ds = <<>> THEN 0
  ELSE 10 * NatOf(SubSeq(ds, 1, Len(ds) - 1)) + DigitVal(ds[Len(ds)])

\* a missing cell of a DataFrame (float NaN); pd.isna(cell) is cell = NaN
NaN == <<"<NaN>">>

\* Python's None, as find_column returns it
None == <<"<None>">>

\* str(cell): a missing cell prints as "nan"
str(cell) == IF cell = NaN THEN <<"n", "a", "n">> ELSE cell

(***************************************************************************)
(* Column Resolver                                                         *)
(***************************************************************************)
\* a faulty find_column, which C20 must tell from the real one: the names
\* are tried in their order and the first name some column contains decides
find_column_by_name(columns, possible_names) ==
  LET cols(k) == {i \in DOMAIN columns :
                    Contains(lower(possible_names[k]), lower(str(columns[i])))}
      names == {k \in DOMAIN possible_names : cols(k) # {}}
  IN  IF names = {} THEN None
      ELSE LET k == CHOOSE n \in names : \A m \in names : n <= m
           IN  columns[CHOOSE i \in cols(k) : \A j \in cols(k) : i <= j]

\* google_sheets_sync.py find_column: the first column, in column order,
\* whose lower-cased header contains one of the lower-cased names
find_column(columns, possible_names) ==
  LET hit(i) == \E k \in DOMAIN possible_names :
                  Contains(lower(possible_names[k]), lower(str(columns[i])))
      hits == {i \in DOMAIN columns : hit(i)}
  IN  IF hits = {} THEN None
      ELSE columns[CHOOSE i \in hits : \A j \in hits : i <= j]

\* data_loader.py DataLoader.find_column: the same scan written as two loops
DL_find_column(columns, possible_names) ==
  LET firstAlias(i) == {k \in DOMAIN possible_names :
                  Contains(lower(possible_names[k]), lower(str(columns[i])))}
      hits == {i \in DOMAIN columns : firstAlias(i) # {}}
  IN  IF hits = {} THEN None
      ELSE columns[CHOOSE i \in hits : \A j \in hits : i <= j]

\* alias lists of GoogleSheetsSync.sync_data
ArticleAliases ==
  << <<"ru_a", "ru_r", "ru_t", "ru_i", "ru_k", "ru_u", "ru_l">>,
     <<"a", "r", "t", "i", "c", "l", "e">>,
     <<"ru_k", "ru_o", "ru_d">>,
     <<"a", "r", "t", "i", "c", "u", "l">>,
     <<"s", "k", "u">> >>

NameAliases ==
  << <<"ru_t", "ru_o", "ru_v", "ru_a", "ru_r">>,
     <<"ru_n", "ru_a", "ru_i", "ru_m", "ru_e", "ru_n", "ru_o", "ru_v", "ru_a",
       "ru_n", "ru_i", "ru_e">>,
     <<"ru_m", "ru_o", "ru_d", "ru_e", "ru_l", "ru_soft">>,
     <<"n", "a", "m", "e">>,
     <<"p", "r", "o", "d", "u", "c", "t">>,
     <<"ru_n", "ru_a", "ru_z", "ru_v", "ru_a", "ru_n", "ru_i", "ru_e">> >>

PriceAliases ==
  << <<"ru_r", "ru_o", "ru_z", "ru_n", "ru_i", "ru_ch", "ru_n", "ru_a", "ru_ya">>,
     <<"ru_ts", "ru_e", "ru_n", "ru_a">>,
     <<"p", "r", "i", "c", "e">>,
     <<"r", "e", "t", "a", "i", "l">>,
     <<"ru_s", "ru_t", "ru_o", "ru_i", "ru_m", "ru_o", "ru_s", "ru_t", "ru_soft">>,
     <<"ru_r", "ru_u", "ru_b">> >>

StockAliases ==
  << <<"ru_v", " ", "ru_n", "ru_a", "ru_l", "ru_i", "ru_ch", "ru_i", "ru_i">>,
     <<"ru_o", "ru_s", "ru_t", "ru_a", "ru_t", "ru_o", "ru_k">>,
     <<"ru_k", "ru_o", "ru_l", "ru_i", "ru_ch", "ru_e", "ru_s", "ru_t", "ru_v", "ru_o">>,
     <<"q", "u", "a", "n", "t", "i", "t", "y">>,
     <<"s", "t", "o", "c", "k">>,
     <<"ru_n", "ru_a", "ru_l", "ru_i", "ru_ch", "ru_i", "ru_e">>,
     <<"ru_k", "ru_o", "ru_l", "-", "ru_v", "ru_o">> >>

\* alias lists of DataLoader.process_data
DL_ArticleAliases ==
  << <<"ru_a", "ru_r", "ru_t", "ru_i", "ru_k", "ru_u", "ru_l">>,
     <<"a", "r", "t", "i", "c", "l", "e">> >>

DL_NameAliases ==
  << <<"ru_m", "ru_o", "ru_d", "ru_e", "ru_l", "ru_soft">>,
     <<"ru_n", "ru_a", "ru_i", "ru_m", "ru_e", "ru_n", "ru_o", "ru_v", "ru_a",
       "ru_n", "ru_i", "ru_e">> >>

DL_PriceAliases ==
  << <<"ru_ts", "ru_e", "ru_n", "ru_a">>,
     <<"p", "r", "i", "c", "e">> >>

DL_StockAliases ==
  << <<"ru_v", " ", "ru_n", "ru_a", "ru_l", "ru_i", "ru_ch", "ru_i", "ru_i">>,
     <<"ru_o", "ru_s", "ru_t", "ru_a", "ru_t", "ru_o", "ru_k">> >>

(***************************************************************************)
(* Field Normalizer.  A float is modelled in hundredths: 45000.0 is        *)
(* 4500000.  The cells the model feeds in carry at most two decimals.      *)
(***************************************************************************)
\* float(s) for s made of digits and dots only: [ok, hundredths]
FloatOfDigitsDots(s) ==
  LET dots == {i \in DOMAIN s : s[i] = "."}
      ndig == Cardinality({i \in DOMAIN s : IsDigit(s[i])})
  IN  IF Cardinality(dots) > 1 \/ ndig = 0
         \/ \E i \in DOMAIN s : ~IsDigit(s[i]) /\ s[i] # "."
      THEN [ok |-> FALSE, v |-> 0]
      ELSE IF dots = {}
      THEN [ok |-> TRUE, v |-> 100 * NatOf(s)]
      ELSE LET d == CHOOSE i \in dots : TRUE
               ip == SubSeq(s, 1, d - 1)
               fr == SubSeq(s, d + 1, Len(s)) \o <<"0", "0">>
           IN  [ok |-> TRUE,
                v  |-> 100 * NatOf(ip) + NatOf(SubSeq(fr, 1, 2))]

\* float(s) as parse_quantity calls it: optional sign, surrounding blanks,
\* digits with at most one dot.  (Exponents, "inf", "nan" and digit
\* separators are outside the cell alphabet of this model.)
FloatOf(s) ==
  LET t    == strip(s)
      sgn  == t # <<>> /\ t[1] \in {"+", "-"}
      body == IF sgn THEN SubSeq(t, 2, Len(t)) ELSE t
      f    == FloatOfDigitsDots(body)
  IN  IF ~f.ok THEN f
      ELSE [ok |-> TRUE, v |-> IF sgn /\ t[1] = "-" THEN 0 - f.v ELSE f.v]

\* a faulty parse_price, which C11 must tell from the real one: the comma is
\* not read as the decimal point
parse_price_drops_comma(price) ==
  IF price = NaN THEN 0
  ELSE LET s2 == SelectSeq(str(price), LAMBDA c : IsDigit(c) \/ c = ".")
           f  == FloatOfDigitsDots(s2)
       IN  IF f.ok THEN f.v ELSE 0

\* google_sheets_sync.py parse_price (hundredths)
parse_price(price) ==
  IF price = NaN THEN 0
  ELSE LET s1 == Replace(SelectSeq(str(price), LAMBDA c : c # " "), ",", ".")
           s2 == SelectSeq(s1, LAMBDA c : IsDigit(c) \/ c = ".")
           f  == FloatOfDigitsDots(s2)
       IN  IF f.ok THEN f.v ELSE 0

\* data_loader.py DataLoader.parse_price (hundredths)
DL_parse_price(price) ==
  IF price = NaN THEN 0
  ELSE LET s1 == Replace(SelectSeq(str(price), LAMBDA c : c # " "), ",", ".")
           s2 == SelectSeq(s1, LAMBDA c : IsDigit(c) \/ c = ".")
           f  == FloatOfDigitsDots(s2)
       IN  IF f.ok THEN f.v ELSE 0

\* int(x) of a float in hundredths: truncation towards zero
IntOfFloat(v) == IF v >= 0 THEN v \div 100 ELSE 0 - ((0 - v) \div 100)

\* google_sheets_sync.py parse_quantity: no character is removed but the
\* blank, so a cell with a unit or a currency sign does not parse
parse_quantity(qty) ==
  IF qty = NaN THEN 0
  ELSE LET s1 == Replace(SelectSeq(str(qty), LAMBDA c : c # " "), ",", ".")
           f  == FloatOf(s1)
       IN  IF ~f.ok THEN 0
           ELSE IF IntOfFloat(f.v) > 0 THEN IntOfFloat(f.v) ELSE 0

\* data_loader.py DataLoader.parse_quantity
DL_parse_quantity(qty) ==
  IF qty = NaN THEN 0
  ELSE LET s1 == Replace(SelectSeq(str(qty), LAMBDA c : c # " "), ",", ".")
           f  == FloatOf(s1)
       IN  IF ~f.ok THEN 0
           ELSE IF IntOfFloat(f.v) > 0 THEN IntOfFloat(f.v) ELSE 0

(***************************************************************************)
(* Attribute Extractor                                                     *)
(***************************************************************************)
\* last index of the run of digits that starts at i (s[i] is a digit)
RunEnd(s, i) ==
  CHOOSE j \in i..Len(s) :
    /\ \A k \in i..j : IsDigit(s[k])
    /\ (j = Len(s) \/ ~IsDigit(s[j + 1]))

\* index of the first character at or after i that is not a blank
SkipSpaces(s, i) ==
  CHOOSE j \in i..(Len(s) + 1) :
    /\ \A k \in i..(j - 1) : IsSpace(s[k])
    /\ (j = Len(s) + 1 \/ ~IsSpace(s[j]))

\* least element of a non-empty set of integers
Least(S) == CHOOSE x \in S : \A y \in S : x <= y

\* the "no match" result of a pattern
NoMatch == [ok |-> FALSE, g |-> <<>>]

ModelPrefixes ==
  << <<"T", "2">>,
     <<"M", "6">>,
     <<"M", "3", "0">>,
     <<"B", "2", "0">>,
     <<"B", "3", "0">>,
     <<"C", "3", "0">>,
     <<"C", "1", "1">>,
     <<"Q", "3">> >>

\* r'(T2|M6|M30|B20|B30|C30|C11|Q3)[^\d]*(\d+)', group 2
PowerPattern1(s) ==
  LET \* prefix occurrences (start, prefix) that a digit follows
      occ  == {<<i, k>> \in (1..Len(s)) \X DOMAIN ModelPrefixes :
                 /\ MatchAt(ModelPrefixes[k], s, i)
                 /\ \E d \in (i + Len(ModelPrefixes[k]))..Len(s) : IsDigit(s[d])}
  IN  IF occ = {} THEN NoMatch
      ELSE LET i0 == Least({o[1] : o \in occ})
               k0 == Least({o[2] : o \in {o \in occ : o[1] = i0}})
               e  == i0 + Len(ModelPrefixes[k0])
               d  == Least({d \in e..Len(s) : IsDigit(s[d])})
           IN  [ok |-> TRUE, g |-> SubSeq(s, d, RunEnd(s, d))]

UnitMarks ==
  << <<"C">>,
     <<"H">>,
     <<"RU_S">>,
     <<"RU_H">>,
     <<"ru_k", "RU_V", "ru_t">>,
     <<"K", "W">> >>

\* a faulty PowerPattern2, which C30 must tell from the real one: the whole
\* match is taken, digits, blanks and unit mark
PowerPattern2_whole(s) ==
  LET starts == {i \in 1..Len(s) :
                   /\ IsDigit(s[i])
                   /\ \E k \in DOMAIN UnitMarks :
                        MatchAt(UnitMarks[k], s, SkipSpaces(s, RunEnd(s, i) + 1))}
  IN  IF starts = {} THEN NoMatch
      ELSE LET i0 == Least(starts)
           IN  [ok |-> TRUE,
                g  |-> SubSeq(s, i0, SkipSpaces(s, RunEnd(s, i0) + 1))]

\* r'(\d+)\s*(C|H|С|Х|кВт|KW)', group 1
PowerPattern2(s) ==
  LET starts == {i \in 1..Len(s) :
                   /\ IsDigit(s[i])
                   /\ \E k \in DOMAIN UnitMarks :
                        MatchAt(UnitMarks[k], s, SkipSpaces(s, RunEnd(s, i) + 1))}
  IN  IF starts = {} THEN NoMatch
      ELSE LET i0 == Least(starts)
           IN  [ok |-> TRUE, g |-> SubSeq(s, i0, RunEnd(s, i0))]

\* literal, then \s*, then (\d+): the digits, for the leftmost match
LiteralSpacesDigits(lit, s) ==
  LET starts == {i \in 1..Len(s) :
                   /\ MatchAt(lit, s, i)
                   /\ LET d == SkipSpaces(s, i + Len(lit))
                      IN  d <= Len(s) /\ IsDigit(s[d])}
  IN  IF starts = {} THEN NoMatch
      ELSE LET d == SkipSpaces(s, Least(starts) + Len(lit))
           IN  [ok |-> TRUE, g |-> SubSeq(s, d, RunEnd(s, d))]

\* r'ГАЗ\s*6000\s*(\d+)', group 1
PowerPattern3(s) ==
  LET gaz    == <<"RU_G", "RU_A", "RU_Z">>
      six    == <<"6", "0", "0", "0">>
      starts == {i \in 1..Len(s) :
                   /\ MatchAt(gaz, s, i)
                   /\ LET a == SkipSpaces(s, i + Len(gaz))
                      IN  /\ MatchAt(six, s, a)
                          /\ LET d == SkipSpaces(s, a + Len(six))
                             IN  d <= Len(s) /\ IsDigit(s[d])}
  IN  IF starts = {} THEN NoMatch
      ELSE LET a == SkipSpaces(s, Least(starts) + Len(gaz))
               d == SkipSpaces(s, a + Len(six))
           IN  [ok |-> TRUE, g |-> SubSeq(s, d, RunEnd(s, d))]

\* r'MK\s*(\d+)', group 1
PowerPattern4(s) == LiteralSpacesDigits(<<"M", "K">>, s)

\* literal immediately followed by (\d+)
LiteralDigits(lit, s) ==
  LET starts == {i \in 1..Len(s) :
                   /\ MatchAt(lit, s, i)
                   /\ i + Len(lit) <= Len(s)
                   /\ IsDigit(s[i + Len(lit)])}
  IN  IF starts = {} THEN NoMatch
      ELSE LET d == Least(starts) + Len(lit)
           IN  [ok |-> TRUE, g |-> SubSeq(s, d, RunEnd(s, d))]

\* r'LL1GBQ(\d+)', group 1
PowerPattern5(s) == LiteralDigits(<<"L", "L", "1", "G", "B", "Q">>, s)

\* r'LN1GBQ(\d+)', group 1
PowerPattern6(s) == LiteralDigits(<<"L", "N", "1", "G", "B", "Q">>, s)

\* re.findall(r'\b(\d{2,3})\b', s)[0]: the first word made of exactly two
\* or three digits
BareNumber(s) ==
  LET wordStart(i) == i = 1 \/ ~IsWord(s[i - 1])
      wordEnd(j)   == j = Len(s) \/ ~IsWord(s[j + 1])
      starts == {i \in 1..Len(s) :
                   /\ IsDigit(s[i])
                   /\ wordStart(i)
                   /\ RunEnd(s, i) - i + 1 \in {2, 3}
                   /\ wordEnd(RunEnd(s, i))}
  IN  IF starts = {} THEN NoMatch
      ELSE [ok |-> TRUE, g |-> SubSeq(s, Least(starts), RunEnd(s, Least(starts)))]

\* the sentinel "Не указана"
NotSpecified ==
  <<"RU_N", "ru_e", " ", "ru_u", "ru_k", "ru_a", "ru_z", "ru_a", "ru_n", "ru_a">>

\* a faulty ExtractPower, which C21 must tell from the real one: the second
\* pattern is tried before the first
ExtractPower_second_first(model_str) ==
  LET p1 == PowerPattern1(model_str)
      p2 == PowerPattern2(model_str)
      p3 == PowerPattern3(model_str)
      p4 == PowerPattern4(model_str)
      p5 == PowerPattern5(model_str)
      p6 == PowerPattern6(model_str)
      nb == BareNumber(model_str)
  IN  IF p2.ok THEN p2.g
      ELSE IF p1.ok THEN p1.g
      ELSE IF p3.ok THEN p3.g
      ELSE IF p4.ok THEN p4.g
      ELSE IF p5.ok THEN p5.g
      ELSE IF p6.ok THEN p6.g
      ELSE IF nb.ok THEN nb.g
      ELSE NotSpecified

\* extract_info, power: the first pattern of the list that matches, else
\* the first bare number, else the sentinel
ExtractPower(model_str) ==
  LET p1 == PowerPattern1(model_str)
      p2 == PowerPattern2(model_str)
      p3 == PowerPattern3(model_str)
      p4 == PowerPattern4(model_str)
      p5 == PowerPattern5(model_str)
      p6 == PowerPattern6(model_str)
      nb == BareNumber(model_str)
  IN  IF p1.ok THEN p1.g
      ELSE IF p2.ok THEN p2.g
      ELSE IF p3.ok THEN p3.g
      ELSE IF p4.ok THEN p4.g
      ELSE IF p5.ok THEN p5.g
      ELSE IF p6.ok THEN p6.g
      ELSE IF nb.ok THEN nb.g
      ELSE NotSpecified

DoubleMarks ==
  << <<" ", "C">>,
     <<"RU_S", " ">>,
     <<"C", ")">>,
     <<"-", "C">>,
     <<" ", "C", " ">>,
     <<" ", "RU_S", " ">> >>

SingleMarks ==
  << <<" ", "H">>,
     <<"RU_N", " ">>,
     <<"H", ")">>,
     <<"-", "H">>,
     <<" ", "H", " ">>,
     <<" ", "RU_N", " ">> >>

WallMounted ==
  <<"RU_N", "RU_A", "RU_S", "RU_T", "RU_E", "RU_N", "RU_N", "RU_Y", "RU_J">>

WifiMarks ==
  << <<"W", "I", "-", "F", "I">>,
     <<"W", "I", "F", "I">>,
     <<"RU_V", "RU_A", "RU_J", "-", "RU_F", "RU_A", "RU_J">>,
     <<"W", "I", " ", "F", "I">> >>

\* extract_info, contours: "Dvuhkonturnyj" is the double-circuit label,
\* "Odnokonturnyj" the single-circuit label
ExtractContours(model_str) ==
  IF ContainsAny(DoubleMarks, model_str) THEN "Dvuhkonturnyj"
  ELSE IF ContainsAny(SingleMarks, model_str) THEN "Odnokonturnyj"
  ELSE IF Contains(WallMounted, model_str) THEN "Dvuhkonturnyj"
  ELSE "Odnokonturnyj"

\* a faulty ExtractWifi, which C25 must tell from the real one: the mark
\* written with a blank is not looked for
ExtractWifi_no_blank(model_str) ==
  IF \E k \in 1..3 : Contains(WifiMarks[k], model_str) THEN "Da" ELSE "Net"

\* extract_info, wifi: "Da" (yes) or "Net" (no)
ExtractWifi(model_str) ==
  IF ContainsAny(WifiMarks, model_str) THEN "Da" ELSE "Net"

\* google_sheets_sync.py extract_info
extract_info(model) ==
  LET model_str == upper(str(model))
  IN  [power    |-> ExtractPower(model_str),
       contours |-> ExtractContours(model_str),
       wifi     |-> ExtractWifi(model_str)]

\* data_loader.py DataLoader.extract_info
DL_extract_info(model) ==
  LET model_str == upper(str(model))
  IN  [power    |-> ExtractPower(model_str),
       contours |-> ExtractContours(model_str),
       wifi     |-> ExtractWifi(model_str)]

(***************************************************************************)
(* Classification Assigner                                                 *)
(***************************************************************************)
\* the family of the image rule that matches first ("" when none does)
ImageFamily(model_name) ==
  LET model == upper(str(model_name))
  IN  IF Contains(<<"M", "E", "T", "E", "O", "R", " ", "T", "2">>, model) THEN "meteor-t2"
      ELSE IF Contains(<<"M", "E", "T", "E", "O", "R", " ", "C", "3", "0">>, model) THEN "meteor-c30"
      ELSE IF Contains(<<"M", "E", "T", "E", "O", "R", " ", "B", "3", "0">>, model) THEN "meteor-b30"
      ELSE IF Contains(<<"M", "E", "T", "E", "O", "R", " ", "B", "2", "0">>, model) THEN "meteor-b20"
      ELSE IF Contains(<<"M", "E", "T", "E", "O", "R", " ", "C", "1", "1">>, model) THEN "meteor-c11"
      ELSE IF Contains(<<"M", "E", "T", "E", "O", "R", " ", "Q", "3">>, model) THEN "meteor-q3"
      ELSE IF Contains(<<"M", "E", "T", "E", "O", "R", " ", "M", "3", "0">>, model) THEN "meteor-m30"
      ELSE IF Contains(<<"M", "E", "T", "E", "O", "R", " ", "M", "6">>, model) THEN "meteor-m6"
      ELSE IF Contains(<<"L", "A", "G", "G", "A", "R", "T", "T">>, model)
              \/ Contains(<<"RU_G", "RU_A", "RU_Z", " ", "6", "0", "0", "0">>, model)
           THEN "laggartt"
      ELSE IF Contains(<<"D", "E", "V", "O", "T", "I", "O", "N">>, model) THEN "devotion"
      ELSE IF Contains(<<"M", "K">>, model) THEN "mk"
      ELSE ""

\* google_sheets_sync.py get_image_for_model
get_image_for_model(model_name) ==
  LET f == ImageFamily(model_name)
  IN  IF f = "" THEN "/static/meteor-b30.jpg" ELSE "/static/" \o f \o ".jpg"

\* data_loader.py DataLoader.get_image_for_model
DL_get_image_for_model(model_name) ==
  LET f == ImageFamily(model_name)
  IN  IF f = "" THEN "images/default.jpg" ELSE "images/" \o f \o ".jpg"

\* a faulty get_product_category, which C23 must tell from the real one: the
\* marker mk is looked for first
get_product_category_mk_first(model) ==
  LET model_str == lower(str(model))
  IN  IF Contains(<<"m", "k">>, model_str) THEN "mk"
      ELSE IF Contains(<<"m", "e", "t", "e", "o", "r">>, model_str) THEN "meteor"
      ELSE IF Contains(<<"l", "a", "g", "g", "a", "r", "t", "t">>, model_str)
              \/ Contains(<<"ru_g", "ru_a", "ru_z">>, model_str) THEN "laggartt"
      ELSE IF Contains(<<"d", "e", "v", "o", "t", "i", "o", "n">>, model_str) THEN "devotion"
      ELSE "other"

\* google_sheets_sync.py get_product_category
get_product_category(model) ==
  LET model_str == lower(str(model))
  IN  IF Contains(<<"m", "e", "t", "e", "o", "r">>, model_str) THEN "meteor"
      ELSE IF Contains(<<"l", "a", "g", "g", "a", "r", "t", "t">>, model_str)
              \/ Contains(<<"ru_g", "ru_a", "ru_z">>, model_str) THEN "laggartt"
      ELSE IF Contains(<<"d", "e", "v", "o", "t", "i", "o", "n">>, model_str) THEN "devotion"
      ELSE IF Contains(<<"m", "k">>, model_str) THEN "mk"
      ELSE "other"

\* data_loader.py DataLoader.get_product_category
DL_get_product_category(model) ==
  LET model_str == lower(str(model))
  IN  IF Contains(<<"m", "e", "t", "e", "o", "r">>, model_str) THEN "meteor"
      ELSE IF Contains(<<"l", "a", "g", "g", "a", "r", "t", "t">>, model_str)
              \/ Contains(<<"ru_g", "ru_a", "ru_z">>, model_str) THEN "laggartt"
      ELSE IF Contains(<<"d", "e", "v", "o", "t", "i", "o", "n">>, model_str) THEN "devotion"
      ELSE IF Contains(<<"m", "k">>, model_str) THEN "mk"
      ELSE "other"

\* int(s) of a string: optional sign, then digits; [ok, v]
IntOf(s) ==
  LET t    == strip(s)
      sgn  == t # <<>> /\ t[1] \in {"+", "-"}
      body == IF sgn THEN SubSeq(t, 2, Len(t)) ELSE t
  IN  IF body = <<>> \/ \E i \in DOMAIN body : ~IsDigit(body[i])
      THEN [ok |-> FALSE, v |-> 0]
      ELSE [ok |-> TRUE,
            v  |-> IF sgn /\ t[1] = "-" THEN 0 - NatOf(body) ELSE NatOf(body)]

\* a faulty get_power_level, which C22 must tell from the real one: the
\* bounds 20 and 30 belong to the upper bucket
get_power_level_strict(power) ==
  LET n == IntOf(power)
  IN  IF ~n.ok THEN "unknown"
      ELSE IF n.v < 20 THEN "low"
      ELSE IF n.v < 30 THEN "medium"
      ELSE "high"

\* google_sheets_sync.py get_power_level
get_power_level(power) ==
  LET n == IntOf(power)
  IN  IF ~n.ok THEN "unknown"
      ELSE IF n.v <= 20 THEN "low"
      ELSE IF n.v <= 30 THEN "medium"
      ELSE "high"

\* data_loader.py DataLoader.get_power_level
DL_get_power_level(power) ==
  LET n == IntOf(power)
  IN  IF ~n.ok THEN "unknown"
      ELSE IF n.v <= 20 THEN "low"
      ELSE IF n.v <= 30 THEN "medium"
      ELSE "high"

\* the status label: "V nalichii" (in stock) or "Net v nalichii"
StatusLabel(x) == IF x > 0 THEN "V nalichii" ELSE "Net v nalichii"

(***************************************************************************)
(* Normalise + merge.  A DataFrame is [columns, rows]: the headers in      *)
(* column order and the rows as sequences of cells in the same order.  A   *)
(* fetch is [ok, price_df, stock_df]; ok = FALSE is pd.read_csv raising.   *)
(***************************************************************************)
\* index of the column named col
ColumnIndex(df, col) == CHOOSE i \in DOMAIN df.columns : df.columns[i] = col

\* df[[c1, ..., cn]]: the rows cut down to the named columns, in that order
SelectColumns(df, cols) ==
  [r \in DOMAIN df.rows |->
     [k \in DOMAIN cols |-> df.rows[r][ColumnIndex(df, cols[k])]]]

\* a faulty CleanArticles, which C13 must tell from the real one: the
\* article is not trimmed
CleanArticles_untrimmed(rows) == SelectSeq(rows, LAMBDA r : r[1] # NaN)

\* dropna(subset=[first column]), then astype(str).str.strip() on it
CleanArticles(rows) ==
  LET kept == SelectSeq(rows, LAMBDA r : r[1] # NaN)
  IN  [i \in DOMAIN kept |-> [kept[i] EXCEPT ![1] = strip(str(kept[i][1]))]]

\* pd.merge(price_clean, stock_clean, on='Артикул', how='left') followed by
\* fillna(0): every price row in order, once per stock row of the same
\* article in stock order, or once with quantity 0 when there is none
RECURSIVE LeftMerge(_, _)
LeftMerge(price_rows, stock_rows) ==
  IF price_rows = <<>> THEN <<>>
  ELSE LET p     == Head(price_rows)
           match == SelectSeq(stock_rows, LAMBDA r : r[1] = p[1])
           out   == IF match = <<>>
                    THEN << [Artikul |-> p[1], Model |-> p[2], Tsena |-> p[3],
                             V_nalichii |-> 0] >>
                    ELSE [i \in DOMAIN match |->
                            [Artikul |-> p[1], Model |-> p[2], Tsena |-> p[3],
                             V_nalichii |-> match[i][2]]]
       IN  out \o LeftMerge(Tail(price_rows), stock_rows)

\* GoogleSheetsSync._add_product_fields, for one row
AddProductFields(row) ==
  LET info == extract_info(row.Model)
  IN  [Artikul            |-> row.Artikul,
       Model              |-> row.Model,
       Tsena              |-> row.Tsena,
       V_nalichii         |-> row.V_nalichii,
       Moshchnost         |-> info.power,
       Kontury            |-> info.contours,
       WiFi               |-> info.wifi,
       Foto               |-> get_image_for_model(row.Model),
       Status             |-> StatusLabel(row.V_nalichii),
       Kategoriya         |-> get_product_category(row.Model),
       Uroven_moshchnosti |-> get_power_level(info.power)]

\* GoogleSheetsSync.sync_data.  Result: [ok, stage, records]; ok = FALSE is
\* the exception it re-raises, stage the place it arose.  emptyRaises is the
\* outcome the installed pandas gives the three-column assignment of
\* _add_product_fields on a frame without rows (raise, or assign nothing).
sync_data(fetch, emptyRaises) ==
  IF ~fetch.ok THEN [ok |-> FALSE, stage |-> "fetch", records |-> <<>>]
  ELSE
    LET price_df == fetch.price_df
        stock_df == fetch.stock_df
        article_col_price == find_column(price_df.columns, ArticleAliases)
        name_col          == find_column(price_df.columns, NameAliases)
        price_col         == find_column(price_df.columns, PriceAliases)
        article_col_stock == find_column(stock_df.columns, ArticleAliases)
        stock_col         == find_column(stock_df.columns, StockAliases)
    IN  IF None \in {article_col_price, name_col, price_col,
                     article_col_stock, stock_col}
        THEN [ok |-> FALSE, stage |-> "resolve", records |-> <<>>]
        ELSE
          LET pc0 == CleanArticles(SelectColumns(price_df,
                       <<article_col_price, name_col, price_col>>))
              price_clean == [i \in DOMAIN pc0 |->
                                [pc0[i] EXCEPT ![3] = parse_price(pc0[i][3])]]
              sc0 == CleanArticles(SelectColumns(stock_df,
                       <<article_col_stock, stock_col>>))
              stock_clean == [i \in DOMAIN sc0 |->
                                [sc0[i] EXCEPT ![2] = parse_quantity(sc0[i][2])]]
              merged_df == LeftMerge(price_clean, stock_clean)
          IN  IF merged_df = <<>> /\ emptyRaises
              THEN [ok |-> FALSE, stage |-> "extract", records |-> <<>>]
              ELSE [ok |-> TRUE, stage |-> "done",
                    records |-> [i \in DOMAIN merged_df |->
                                   AddProductFields(merged_df[i])]]

\* the derived fields DataLoader.process_data adds to one row
DL_AddProductFields(row) ==
  LET info == DL_extract_info(row.Model)
  IN  [Artikul            |-> row.Artikul,
       Model              |-> row.Model,
       Tsena              |-> row.Tsena,
       V_nalichii         |-> row.V_nalichii,
       Moshchnost         |-> info.power,
       Kontury            |-> info.contours,
       WiFi               |-> info.wifi,
       Foto               |-> DL_get_image_for_model(row.Model),
       Status             |-> StatusLabel(row.V_nalichii),
       Kategoriya         |-> DL_get_product_category(row.Model),
       Uroven_moshchnosti |-> DL_get_power_level(info.power)]

\* DataLoader.process_data (called with the two fetched frames)
process_data(price_df, stock_df, emptyRaises) ==
  LET article_col_price == DL_find_column(price_df.columns, DL_ArticleAliases)
      name_col          == DL_find_column(price_df.columns, DL_NameAliases)
      price_col         == DL_find_column(price_df.columns, DL_PriceAliases)
      article_col_stock == DL_find_column(stock_df.columns, DL_ArticleAliases)
      stock_col         == DL_find_column(stock_df.columns, DL_StockAliases)
  IN  IF None \in {article_col_price, name_col, price_col,
                   article_col_stock, stock_col}
      THEN [ok |-> FALSE, stage |-> "resolve", records |-> <<>>]
      ELSE
        LET pc0 == CleanArticles(SelectColumns(price_df,
                     <<article_col_price, name_col, price_col>>))
            price_clean == [i \in DOMAIN pc0 |->
                              [pc0[i] EXCEPT ![3] = DL_parse_price(pc0[i][3])]]
            sc0 == CleanArticles(SelectColumns(stock_df,
                     <<article_col_stock, stock_col>>))
            stock_clean == [i \in DOMAIN sc0 |->
                              [sc0[i] EXCEPT ![2] = DL_parse_quantity(sc0[i][2])]]
            merged_df == LeftMerge(price_clean, stock_clean)
        IN  IF merged_df = <<>> /\ emptyRaises
            THEN [ok |-> FALSE, stage |-> "extract", records |-> <<>>]
            ELSE [ok |-> TRUE, stage |-> "done",
                  records |-> [i \in DOMAIN merged_df |->
                                 DL_AddProductFields(merged_df[i])]]

(***************************************************************************)
(* The store: table product (models.py Product) and the SQLAlchemy session *)
(* of one request.  A session is                                           *)
(*   txn    the table as the open transaction sees it (valid when intx)    *)
(*   intx   the transaction has written (with SQLite: holds the write lock)*)
(*   pend   the object added or modified since the last flush (0 or 1)     *)
(*   log    the tags <<batch, index>> of the objects flushed in the open   *)
(*          transaction                                                    *)
(*   active FALSE once a flush has failed: the transaction is rolled back  *)
(*          and every later use raises until rollback() is called          *)
(***************************************************************************)
\* the result of .first() when no row matches
NoRow == [id |-> 0]

FreshSession ==
  [txn |-> {}, intx |-> FALSE, pend |-> <<>>, log |-> <<>>, active |-> TRUE]

\* the table as the session reads it
View(S, committed) == IF S.intx THEN S.txn ELSE committed

Max(S) == CHOOSE x \in S : \A y \in S : y <= x

\* id = db.Column(db.Integer, primary_key=True) on SQLite: the rowid, one
\* more than the largest id in the table
NextId(rows) == IF rows = {} THEN 1 ELSE Max({r.id : r \in rows}) + 1

\* Product.query.filter_by(article=a).first()
QueryFirst(rows, a) ==
  IF \E r \in rows : r.article = a
  THEN CHOOSE r \in rows : r.article = a
  ELSE NoRow

\* sync_from_sheets lines 104-123 (load_from_json lines 42-61): the Product
\* built for an article the lookup did not find; id, created_at and
\* updated_at are given at the INSERT
NewProduct(item) ==
  [id             |-> 0,
   article        |-> item.Artikul,
   name           |-> item.Model,
   description    |-> <<"Kotel", item.Moshchnost, item.Kontury>>,
   price          |-> item.Tsena,
   category       |-> item.Kategoriya,
   image_url      |-> item.Foto,
   specifications |-> [power       |-> item.Moshchnost,
                       contours    |-> item.Kontury,
                       wifi        |-> item.WiFi,
                       power_level |-> item.Uroven_moshchnosti],
   stock_quantity |-> item.V_nalichii,
   in_stock       |-> item.V_nalichii > 0,
   power          |-> item.Moshchnost,
   contours       |-> item.Kontury,
   wifi           |-> item.WiFi,
   status         |-> item.Status,
   power_level    |-> item.Uroven_moshchnosti,
   views_count    |-> 0,
   created_at     |-> 0,
   updated_at     |-> 0]

\* a faulty UpdateProduct, which C1 must tell from the real one: the row
\* found is overwritten with a newly built Product
UpdateProduct_rebuilds(found, item) ==
  [NewProduct(item) EXCEPT !.id = found.id, !.updated_at = found.updated_at]

\* sync_from_sheets lines 90-100 (load_from_json lines 28-38): the
\* assignments to the row the lookup found
UpdateProduct(found, item) ==
  [found EXCEPT !.name           = item.Model,
                !.price          = item.Tsena,
                !.stock_quantity = item.V_nalichii,
                !.in_stock       = item.V_nalichii > 0,
                !.power          = item.Moshchnost,
                !.contours       = item.Kontury,
                !.wifi           = item.WiFi,
                !.status         = item.Status,
                !.power_level    = item.Uroven_moshchnosti,
                !.category       = item.Kategoriya,
                !.image_url      = item.Foto]

\* sync_from_sheets lines 88-126 (load_from_json lines 26-64): the object
\* the loop body leaves in the session for one item
UpsertItem(found, item, tag) ==
  IF found.id # 0
  THEN [isNew |-> FALSE, tag |-> tag, loaded |-> found,
        row |-> UpdateProduct(found, item)]
  ELSE [isNew |-> TRUE, tag |-> tag, loaded |-> NoRow,
        row |-> NewProduct(item)]

\* the columns an UPDATE of the object would set: those whose value differs
\* from the loaded one
ChangedColumns(op) == {c \in DOMAIN op.row : op.row[c] # op.loaded[c]}

\* models.py: name nullable=False (a missing name is bound as NULL),
\* article unique=True; an UPDATE that finds no row is a StaleDataError
FlushFails(rows, op) ==
  \/ op.row.name = NaN
  \/ op.isNew /\ \E r \in rows : r.article = op.row.article
  \/ ~op.isNew /\ ChangedColumns(op) # {} /\ ~\E r \in rows : r.id = op.loaded.id

\* the INSERT or UPDATE of one flushed object; created_at and updated_at
\* take their defaults (models.py lines 22-23)
FlushWrite(rows, op, now) ==
  IF op.isNew
  THEN rows \cup {[op.row EXCEPT !.id = NextId(rows),
                                 !.created_at = now,
                                 !.updated_at = now]}
  ELSE LET cur == CHOOSE r \in rows : r.id = op.loaded.id
           ch  == ChangedColumns(op)
           new == [c \in DOMAIN cur |->
                     IF c \in ch THEN op.row[c]
                     ELSE IF c = "updated_at" THEN now
                     ELSE cur[c]]
       IN  (rows \ {cur}) \cup {new}

\* a faulty FlushError, which C6 must tell from the real one: the failed
\* object is dropped and the transaction goes on with the writes it holds
FlushError_keeps(S) == [S EXCEPT !.pend = <<>>]

\* what a failed flush leaves: SQLAlchemy rolls the transaction back and
\* deactivates the session
FlushError(S) ==
  [txn |-> {}, intx |-> FALSE, pend |-> <<>>, log |-> <<>>, active |-> FALSE]

\* Session.flush(), as autoflush runs it before a query and commit() before
\* COMMIT
Flush(S, committed, now) ==
  IF S.pend = <<>> THEN S
  ELSE LET op   == S.pend[1]
           rows == View(S, committed)
       IN  IF FlushFails(rows, op) THEN FlushError(S)
           ELSE IF ~op.isNew /\ ChangedColumns(op) = {}
           THEN [S EXCEPT !.pend = <<>>, !.log = Append(S.log, op.tag)]
           ELSE [txn    |-> FlushWrite(rows, op, now),
                 intx   |-> TRUE,
                 pend   |-> <<>>,
                 log    |-> Append(S.log, op.tag),
                 active |-> TRUE]

\* the loop body after the query's autoflush left session S1: nothing when
\* the flush failed, else the update of the row found or the add of a new one
LoopBodyAfterFlush(S1, committed, item, tag) ==
  IF ~S1.active THEN S1
  ELSE [S1 EXCEPT !.pend =
          << UpsertItem(QueryFirst(View(S1, committed), item.Artikul),
                        item, tag) >>]

\* one pass of the loop body: the query (with its autoflush), then the
\* update of the row found or the add of a new one
LoopBody(S, committed, item, tag, now) ==
  LoopBodyAfterFlush(Flush(S, committed, now), committed, item, tag)

\* the loop over items[i..], stopping at the first exception; RunLoopFrom
\* continues after the pass over items[i] left session S1.
\* Result: [S, raised]
RECURSIVE RunLoop(_, _, _, _, _, _)
RECURSIVE RunLoopFrom(_, _, _, _, _, _)
RunLoop(S, committed, items, i, batch, now) ==
  IF i > Len(items) THEN [S |-> S, raised |-> FALSE]
  ELSE IF items[i].kind # "dict" \/ ~S.active
  THEN [S |-> S, raised |-> TRUE]
  ELSE RunLoopFrom(LoopBody(S, committed, items[i].d, <<batch, i>>, now),
                   committed, items, i, batch, now)

RunLoopFrom(S1, committed, items, i, batch, now) ==
  IF ~S1.active THEN [S |-> S1, raised |-> TRUE]
  ELSE RunLoop(S1, committed, items, i + 1, batch, now)

\* db.session.commit() once its flush left session S1
CommitAfterFlush(S1, committed) ==
  IF ~S1.active
  THEN [S |-> S1, raised |-> TRUE, rows |-> committed, log |-> <<>>]
  ELSE [S |-> FreshSession, raised |-> FALSE, rows |-> View(S1, committed),
        log |-> S1.log]

\* db.session.commit(): [S, raised, rows, log]; rows is the committed table,
\* log the tags of the objects the committed transaction wrote
Commit(S, committed, now) ==
  IF ~S.active
  THEN [S |-> S, raised |-> TRUE, rows |-> committed, log |-> <<>>]
  ELSE CommitAfterFlush(Flush(S, committed, now), committed)

(***************************************************************************)
(* DataService (data_service.py).  A batch is a sequence of entries        *)
(* [kind, d]: kind "dict" with the record d, or kind "str" for an entry    *)
(* that is not a JSON object (iterating a JSON object yields its keys).    *)
(* The cache file temp_kotly_repo/data.json is [exists, parses, data].     *)
(***************************************************************************)
Entries(records) == [i \in DOMAIN records |-> [kind |-> "dict", d |-> records[i]]]

\* load_from_json lines 70-73: rollback, raise
LoadFailed(committed) ==
  [rows |-> committed, raised |-> TRUE, msg |-> "error", n |-> 0,
   committed |-> FALSE, S |-> FreshSession]

\* load_from_json lines 66-68, c being what commit() gave
LoadCommitted(c, committed, n) ==
  IF c.raised THEN LoadFailed(committed)
  ELSE [rows |-> c.rows, raised |-> FALSE, msg |-> "loaded", n |-> n,
        committed |-> TRUE, S |-> c.S]

\* load_from_json after its loop (lines 24-64) ended as loop = [S, raised]
LoadAfterLoop(loop, committed, n, now) ==
  IF loop.raised THEN LoadFailed(committed)
  ELSE LoadCommitted(Commit(loop.S, committed, now), committed, n)

\* DataService.load_from_json run with session S.  appContext is FALSE when
\* no Flask application context is pushed (every use of db.session or
\* Product.query raises).  Result: [rows, raised, msg, n, committed, S]
load_from_json(S, committed, cache, appContext, now) ==
  IF ~cache.exists
  THEN [rows |-> committed, raised |-> FALSE, msg |-> "json_not_found",
        n |-> 0, committed |-> FALSE, S |-> S]
  ELSE IF ~cache.parses \/ ~appContext THEN LoadFailed(committed)
  ELSE LoadAfterLoop(RunLoop(S, committed, cache.data, 1, "cache", now),
                     committed, Len(cache.data), now)

\* what sync_from_sheets reports when its fallback ended as lf
FallbackResult(lf, stage) ==
  [rows |-> lf.rows, raised |-> lf.raised, msg |-> lf.msg, n |-> lf.n,
   stage |-> stage, fallback |-> TRUE,
   source |-> IF lf.committed THEN "cache" ELSE "none"]

\* the except branch of sync_from_sheets (lines 134-140): no rollback, then
\* load_from_json() in the session the failure left behind
Fallback(S, committed, cache, stage, now) ==
  FallbackResult(load_from_json(S, committed, cache, TRUE, now), stage)

\* sync_from_sheets lines 128-130, c being what commit() gave
SyncCommitted(c, committed, n, cache, now) ==
  IF c.raised THEN Fallback(c.S, committed, cache, "reconcile", now)
  ELSE [rows |-> c.rows, raised |-> FALSE, msg |-> "synced", n |-> n,
        stage |-> "none", fallback |-> FALSE, source |-> "sheets"]

\* sync_from_sheets after its loop (lines 86-126) ended as loop = [S, raised]
SyncAfterLoop(loop, committed, n, cache, now) ==
  IF loop.raised THEN Fallback(loop.S, committed, cache, "reconcile", now)
  ELSE SyncCommitted(Commit(loop.S, committed, now), committed, n, cache, now)

\* DataService.sync_from_sheets, r being what sheets_sync.sync_data() gave
\* at line 80.  Result: rows is the committed table, raised whether the call
\* raised, msg the text returned, n the count in it, stage the step of the
\* sheets path that failed ("none" when none did), fallback whether
\* load_from_json was called, source the batch committed
sync_from_sheets(committed, r, cache, now) ==
  IF ~r.ok THEN Fallback(FreshSession, committed, cache, r.stage, now)
  ELSE IF r.records = <<>>
  THEN [rows |-> committed, raised |-> FALSE, msg |-> "no_data", n |-> 0,
        stage |-> "none", fallback |-> FALSE, source |-> "none"]
  ELSE SyncAfterLoop(RunLoop(FreshSession, committed, Entries(r.records), 1,
                             "sheets", now),
                     committed, Len(r.records), cache, now)

(***************************************************************************)
(* DataLoader (data_loader.py)                                             *)
(***************************************************************************)
\* the Product built at save_to_database lines 212-231, inserted as row id
DL_Product(product_data, id, now) ==
  [id             |-> id,
   article        |-> product_data.Artikul,
   name           |-> product_data.Model,
   description    |-> <<"Gazovyj kotel", product_data.Model>>,
   price          |-> product_data.Tsena,
   category       |-> product_data.Kategoriya,
   image_url      |-> product_data.Foto,
   specifications |-> [power    |-> product_data.Moshchnost,
                       contours |-> product_data.Kontury,
                       wifi     |-> product_data.WiFi],
   in_stock       |-> product_data.V_nalichii > 0,
   stock_quantity |-> product_data.V_nalichii,
   power          |-> product_data.Moshchnost,
   contours       |-> product_data.Kontury,
   wifi           |-> product_data.WiFi,
   status         |-> product_data.Status,
   power_level    |-> product_data.Uroven_moshchnosti,
   views_count    |-> 0,
   created_at     |-> now,
   updated_at     |-> now]

\* DataLoader.save_to_database: Product.query.delete(), one add per record,
\* commit.  The flush at commit fails on a NULL name or a repeated article
\* and nothing of the transaction, the DELETE included, is committed.
\* Result: [raised, rows]
save_to_database(committed, products_data, now) ==
  IF \/ \E i \in DOMAIN products_data : products_data[i].Model = NaN
     \/ \E i, j \in DOMAIN products_data :
          i # j /\ products_data[i].Artikul = products_data[j].Artikul
  THEN [raised |-> TRUE, rows |-> committed]
  ELSE [raised |-> FALSE,
        rows   |-> {DL_Product(products_data[i], i, now) :
                      i \in DOMAIN products_data}]

\* load_from_sheets lines 26-32, saved being what save_to_database gave
LoadSaved(saved, committed, n) ==
  IF saved.raised
  THEN [rows |-> committed, success |-> FALSE, n |-> 0, stage |-> "reconcile"]
  ELSE [rows |-> saved.rows, success |-> TRUE, n |-> n, stage |-> "none"]

\* DataLoader.load_from_sheets, fetch_ok telling whether both read_csv calls
\* returned and r what process_data gave at line 23.
\* Result: [rows, success, n, stage]
load_from_sheets(committed, fetch_ok, r, now) ==
  IF ~fetch_ok
  THEN [rows |-> committed, success |-> FALSE, n |-> 0, stage |-> "fetch"]
  ELSE IF ~r.ok
  THEN [rows |-> committed, success |-> FALSE, n |-> 0, stage |-> r.stage]
  ELSE LoadSaved(save_to_database(committed, r.records, now), committed,
                 Len(r.records))

(***************************************************************************)
(* The catalog as a state machine                                          *)
(***************************************************************************)
VARIABLES
  products,       \* the committed rows of table product
  product_views,  \* the committed rows of table product_view
  data_json,      \* the file temp_kotly_repo/data.json
  products_json,  \* the file data/products.json
  now,            \* the clock: one tick per request or job
  last,           \* what the last request or job reported
  inv,            \* the sync invocations in flight (step-wise specification)
  calc            \* inputs and output of the merge pipeline (pipeline specification)

vars == <<products, product_views, data_json, products_json, now, last, inv, calc>>

\* ---- bounds ----
MaxPriceRows == 2
MaxStockRows == 1
MaxClock     == 4
MaxViews     == 1

\* ---- the sheets the requests may fetch ----
H_Artikul == <<"RU_A", "ru_r", "ru_t", "ru_i", "ru_k", "ru_u", "ru_l">>
H_Model   == <<"RU_M", "ru_o", "ru_d", "ru_e", "ru_l", "ru_soft">>
H_Tsena   == <<"RU_TS", "ru_e", "ru_n", "ru_a">>
H_Ostatok == <<"RU_O", "ru_s", "ru_t", "ru_a", "ru_t", "ru_o", "ru_k">>

ModelA == <<"M", "K", " ", "2", "4", " ", "C">>
ModelB == <<"T", "2", " ", "1", "2", " ", "H">>

PriceRows ==
  { << <<" ", "A", "1", " ">>, ModelA, <<"4", "5", " ", "0", "0", "0">> >>,
    << <<"A", "1">>,           ModelB, <<"1", "0", "0", ",", "5">> >>,
    << <<"B", "2">>,           ModelA, <<"1", "0", "0", ",", "5">> >>,
    << <<"B", "2">>,           NaN,    <<"4", "5", " ", "0", "0", "0">> >> }

StockRows == { << <<"A", "1">>, <<"3">> >> }

SeqsUpTo(S, n) == UNION {[1..k -> S] : k \in 0..n}

Frame(columns, rows) == [columns |-> columns, rows |-> rows]

FetchFailed ==
  [ok |-> FALSE, price_df |-> Frame(<<>>, <<>>), stock_df |-> Frame(<<>>, <<>>)]

\* a price sheet without a price column
FetchNoPriceColumn ==
  [ok       |-> TRUE,
   price_df |-> Frame(<<H_Artikul, H_Model>>,
                      << << <<"A", "1">>, ModelA >> >>),
   stock_df |-> Frame(<<H_Artikul, H_Ostatok>>, <<>>)]

Fetches ==
  {FetchFailed, FetchNoPriceColumn} \cup
  {[ok       |-> TRUE,
    price_df |-> Frame(<<H_Artikul, H_Model, H_Tsena>>, pr),
    stock_df |-> Frame(<<H_Artikul, H_Ostatok>>, sr)] :
     pr \in SeqsUpTo(PriceRows, MaxPriceRows),
     sr \in SeqsUpTo(StockRows, MaxStockRows)}

\* ---- the cache files Init may find ----
CacheRecord ==
  AddProductFields([Artikul |-> <<"B", "2">>, Model |-> ModelB,
                    Tsena |-> 770000, V_nalichii |-> 1])

NotADict == [kind |-> "str", d |-> [key |-> "products"]]

CacheFiles ==
  { [exists |-> FALSE, parses |-> FALSE, data |-> <<>>],
    [exists |-> TRUE,  parses |-> FALSE, data |-> <<>>],
    [exists |-> TRUE,  parses |-> TRUE,  data |-> Entries(<<CacheRecord>>)],
    [exists |-> TRUE,  parses |-> TRUE,
     data |-> Entries(<<CacheRecord>>) \o <<NotADict>>] }

\* Every sheet above with what the pipelines make of it: a request draws
\* one entry.  emptyRaises (whether the column assignment from apply raises
\* on an empty frame) is listed as TRUE only where it changes the result
SyncDataEntries(f) ==
  LET plain  == sync_data(f, FALSE)
      raises == sync_data(f, TRUE)
  IN  {[fetch |-> f, emptyRaises |-> FALSE, result |-> plain]} \cup
      (IF raises = plain THEN {}
       ELSE {[fetch |-> f, emptyRaises |-> TRUE, result |-> raises]})

SyncDataTable == UNION {SyncDataEntries(f) : f \in Fetches}

ProcessDataEntries(f) ==
  LET plain  == process_data(f.price_df, f.stock_df, FALSE)
      raises == process_data(f.price_df, f.stock_df, TRUE)
  IN  {[fetch |-> f, emptyRaises |-> FALSE, result |-> plain]} \cup
      (IF raises = plain THEN {}
       ELSE {[fetch |-> f, emptyRaises |-> TRUE, result |-> raises]})

ProcessDataTable == UNION {ProcessDataEntries(f) : f \in Fetches}

NoReport ==
  [op |-> "none", ok |-> TRUE, msg |-> "none", stage |-> "none",
   fallback |-> FALSE, source |-> "none", n |-> 0]

Init ==
  /\ products = {}
  /\ product_views = {}
  /\ data_json \in CacheFiles
  /\ products_json = [exists |-> FALSE, last_updated |-> 0]
  /\ now = 1
  /\ last = NoReport
  /\ inv = <<>>
  /\ calc = <<>>

\* the store and the report a request leaves when sync_from_sheets ended as r
SyncFromSheets(op, r) ==
  /\ now < MaxClock
  /\ products' = r.rows
  /\ last' = [op |-> op, ok |-> ~r.raised, msg |-> r.msg, stage |-> r.stage,
              fallback |-> r.fallback, source |-> r.source, n |-> r.n]
  /\ now' = now + 1
  /\ UNCHANGED <<product_views, data_json, products_json, inv, calc>>

\* routes.py sync_data: POST /api/sync-data
sync_data_route(sheets) ==
  SyncFromSheets("sync_data",
                 sync_from_sheets(products, sheets.result, data_json, now))

\* admin_routes.py admin_sync_data: POST /admin/sync
admin_sync_data(sheets) ==
  SyncFromSheets("admin_sync_data",
                 sync_from_sheets(products, sheets.result, data_json, now))

\* the store and the report the request leaves when load_from_sheets ended
\* as r
LoadFromSheets(r) ==
  /\ now < MaxClock
  /\ products' = r.rows
  /\ last' = [op |-> "load_data_from_sheets", ok |-> r.success,
              msg |-> IF r.success THEN "loaded_sheets" ELSE "error",
              stage |-> r.stage, fallback |-> FALSE,
              source |-> IF r.success THEN "sheets" ELSE "none",
              n |-> r.n]
  /\ now' = now + 1
  /\ UNCHANGED <<product_views, data_json, products_json, inv, calc>>

\* routes.py load_data_from_sheets: POST /api/load-data
load_data_from_sheets(sheets) ==
  LoadFromSheets(load_from_sheets(products, sheets.fetch.ok, sheets.result,
                                  now))

\* the job once scheduled_sync() returned success and load_from_json ended
\* as lf
SyncDataJob(success, lf) ==
  /\ now < MaxClock
  /\ products_json' = IF success
                      THEN [exists |-> TRUE, last_updated |-> now]
                      ELSE products_json
  /\ products' = IF success THEN lf.rows ELSE products
  /\ last' = [op |-> "sync_data_job", ok |-> success /\ ~lf.raised,
              msg |-> IF success THEN lf.msg ELSE "error",
              stage |-> IF success THEN "none" ELSE "fetch",
              fallback |-> FALSE,
              source |-> IF success /\ lf.committed THEN "cache" ELSE "none",
              n |-> IF success THEN lf.n ELSE 0]
  /\ now' = now + 1
  /\ UNCHANGED <<product_views, data_json, inv, calc>>

\* scheduler.py sync_data_job: scheduled_sync() writes data/products.json
\* when its fetch succeeds, then DataService().load_from_json() runs in the
\* scheduler process, where no application context is pushed
sync_data_job(success) ==
  SyncDataJob(success,
              load_from_json(FreshSession, products, data_json, FALSE, now))

\* routes.py get_product: GET /api/product/<id>
get_product(product_id) ==
  /\ now < MaxClock
  /\ \E product \in products :
       /\ product.id = product_id
       /\ product.views_count < MaxViews
       /\ product_views' = product_views \cup
            {[id |-> NextId(product_views), product_id |-> product_id,
              viewed_at |-> now]}
       /\ products' = (products \ {product}) \cup
            {[product EXCEPT !.views_count = product.views_count + 1,
                             !.updated_at  = now]}
  /\ last' = [NoReport EXCEPT !.op = "get_product"]
  /\ now' = now + 1
  /\ UNCHANGED <<data_json, products_json, inv, calc>>

Next ==
  \/ \E sheets \in SyncDataTable : sync_data_route(sheets)
  \/ \E sheets \in SyncDataTable : admin_sync_data(sheets)
  \/ \E sheets \in ProcessDataTable : load_data_from_sheets(sheets)
  \/ \E success \in BOOLEAN : sync_data_job(success)
  \/ \E product_id \in 1..(MaxPriceRows + 1) : get_product(product_id)

Spec == Init /\ [][Next]_vars

(***************************************************************************)
(* Claims                                                                  *)
(***************************************************************************)
DataServiceOps == {"sync_data", "admin_sync_data", "sync_data_job"}

\* the index of the last record of a batch for article a
LastIndex(items, a) ==
  Max({i \in DOMAIN items : items[i].kind = "dict" /\ items[i].d.Artikul = a})

\* every row of `before` whose article is in the batch is in `after` with
\* its id, views_count and created_at, and with the record's columns
UpsertKeeps(before, after, items) ==
  \A p \in before : \A i \in DOMAIN items :
    (items[i].kind = "dict" /\ items[i].d.Artikul = p.article
       /\ i = LastIndex(items, p.article))
    => \E q \in after :
         /\ q.article = p.article
         /\ q.id = p.id
         /\ q.views_count = p.views_count
         /\ q.created_at = p.created_at
         /\ q.price = items[i].d.Tsena
         /\ q.name = items[i].d.Model
         /\ q.stock_quantity = items[i].d.V_nalichii
         /\ q.in_stock = (items[i].d.V_nalichii > 0)
         /\ q.power = items[i].d.Moshchnost
         /\ q.contours = items[i].d.Kontury
         /\ q.wifi = items[i].d.WiFi
         /\ q.status = items[i].d.Status
         /\ q.power_level = items[i].d.Uroven_moshchnosti
         /\ q.category = items[i].d.Kategoriya
         /\ q.image_url = items[i].d.Foto

\* UpsertKeeps for the batch a DataService run r committed
UpsertKeepsIn(before, r, sheetItems, cacheItems) ==
  /\ r.source = "sheets" => UpsertKeeps(before, r.rows, sheetItems)
  /\ r.source = "cache"  => UpsertKeeps(before, r.rows, cacheItems)

\* every row is still there after the step with its id, views_count and
\* created_at
RowsKept ==
  \A p \in products : \E q \in products' :
    /\ q.article = p.article
    /\ q.id = p.id
    /\ q.views_count = p.views_count
    /\ q.created_at = p.created_at

\* C1: a sync run through DataService (sync_from_sheets, or load_from_json as
\* its fallback or from the scheduled job) that commits a batch leaves every
\* row whose article is in the batch with its id, views_count and created_at,
\* and with price and the other assigned columns equal to the values of the
\* (last) record for that article; and every step of the DataService entry
\* points keeps id, views_count and created_at of every row.
C1_UpsertPreservesIdentity ==
  /\ [](now < MaxClock =>
          \A sheets \in SyncDataTable :
            UpsertKeepsIn(products,
                          sync_from_sheets(products, sheets.result, data_json,
                                           now),
                          Entries(sheets.result.records), data_json.data))
  /\ [][last'.op \in DataServiceOps => RowsKept]_vars

\* a row viewed earlier has just been updated by a sheets sync
C1_Witness ==
  /\ last.op \in {"sync_data", "admin_sync_data"}
  /\ last.source = "sheets"
  /\ \E p \in products :
       /\ p.views_count > 0
       /\ p.created_at < now - 1
       /\ p.updated_at = now - 1

SyncOps == DataServiceOps \cup {"load_data_from_sheets"}

\* C2: no step of a sync entry point (DataService.sync_from_sheets,
\* DataService.load_from_json, DataLoader.load_from_sheets) deletes a row or
\* changes its id or views_count: every article persisted before the step is
\* persisted after it with the same id and the same views_count.
C2_SyncNeverDeletesOrResets ==
  [][last'.op \in SyncOps =>
       \A p \in products : \E q \in products' :
         /\ q.article = p.article
         /\ q.id = p.id
         /\ q.views_count = p.views_count]_vars

\* a row without its updated_at
WithoutUpdated(p) == [p EXCEPT !.updated_at = 0]

\* two tables hold the same rows up to updated_at, no article twice
SameProducts(first, second) ==
  /\ {WithoutUpdated(p) : p \in first} = {WithoutUpdated(q) : q \in second}
  /\ \A p, q \in second : p.article = q.article => p = q

\* the table after sync_from_sheets ended as r1 and was run again on the
\* same data one tick later
SyncTwice(r1, result, cache, t) ==
  SameProducts(r1.rows, sync_from_sheets(r1.rows, result, cache, t + 1).rows)

\* the same for DataLoader.load_from_sheets
LoadTwice(r1, fetch_ok, result, t) ==
  SameProducts(r1.rows, load_from_sheets(r1.rows, fetch_ok, result, t + 1).rows)

\* C3: from every reachable store and for every fetched pair of sheets,
\* running a sync entry point twice in a row on the same sheets leaves, after
\* the second run, the same rows as after the first, up to updated_at, and
\* no article twice.
C3_Idempotent ==
  now + 1 < MaxClock =>
    /\ \A sheets \in SyncDataTable :
         SyncTwice(sync_from_sheets(products, sheets.result, data_json, now),
                   sheets.result, data_json, now)
    /\ \A sheets \in ProcessDataTable :
         LoadTwice(load_from_sheets(products, sheets.fetch.ok, sheets.result,
                                    now),
                   sheets.fetch.ok, sheets.result, now)

\* C4: a sync invocation whose column resolution fails (no header matches a
\* price alias, or another role is unresolved) ends in failure and leaves the
\* store as it was.
C4_MissingColumnFailsClean ==
  [][(last'.op \in SyncOps /\ last'.stage = "resolve") =>
       (~last'.ok /\ products' = products)]_vars

\* C5: a sync invocation runs the cache fallback only when the fetch itself
\* failed, never after a failure of a later stage.
C5_FallbackOnlyOnFetchFailure ==
  [][(last'.op \in SyncOps /\ last'.fallback) => last'.stage = "fetch"]_vars

\* the cleaned pricing rows <<article, name, price>> of a fetched sheet
PriceClean(fetch) ==
  CleanArticles(SelectColumns(fetch.price_df, <<H_Artikul, H_Model, H_Tsena>>))

\* the articles that occur on more than one row
Duplicated(rows) ==
  {rows[i][1] : i \in {i \in DOMAIN rows :
                         \E j \in DOMAIN rows : j # i /\ rows[j][1] = rows[i][1]}}

LastRowOf(rows, a) == rows[Max({i \in DOMAIN rows : rows[i][1] = a})]

\* the run succeeded and holds one product per duplicated article, with the
\* name and price of the last row for it
LastSeenWins(rows, ok, after) ==
  \A a \in Duplicated(rows) :
    /\ ok
    /\ Cardinality({q \in after : q.article = a}) = 1
    /\ \A q \in after :
         q.article = a => /\ q.name = LastRowOf(rows, a)[2]
                          /\ q.price = parse_price(LastRowOf(rows, a)[3])

NamesPresent(rows) == \A i \in DOMAIN rows : rows[i][2] # NaN

LastSeenWinsService(rows, r) ==
  LastSeenWins(rows, ~r.raised /\ r.source = "sheets", r.rows)

LastSeenWinsLoader(rows, r) == LastSeenWins(rows, r.success, r.rows)

\* C10: when the pricing sheet has several rows with the same trimmed
\* article (and every row has a name), the sync succeeds and the store holds
\* exactly one product for that article, with the name and price of the last
\* such row; through DataService and through DataLoader.
C10_LastSeenWins ==
  now < MaxClock =>
    /\ \A sheets \in SyncDataTable :
         (sheets.result.ok /\ NamesPresent(PriceClean(sheets.fetch))) =>
           LastSeenWinsService(PriceClean(sheets.fetch),
             sync_from_sheets(products, sheets.result, data_json, now))
    /\ \A sheets \in ProcessDataTable :
         (sheets.result.ok /\ NamesPresent(PriceClean(sheets.fetch))) =>
           LastSeenWinsLoader(PriceClean(sheets.fetch),
             load_from_sheets(products, sheets.fetch.ok, sheets.result, now))

(***************************************************************************)
(* The merge pipelines on their own: Init draws a pricing sheet and a      *)
(* stock sheet, one step runs GoogleSheetsSync.sync_data or                *)
(* DataLoader.process_data on them.                                        *)
(***************************************************************************)
MaxMergePriceRows == 2
MaxMergeStockRows == 2

MergePriceRows ==
  { << NaN,                    ModelA, <<"4", "5", " ", "0", "0", "0">> >>,
    << <<" ", " ">>,           ModelA, <<"4", "5", " ", "0", "0", "0">> >>,
    << <<" ", "A", "1", " ">>, ModelA, <<"4", "5", " ", "0", "0", "0">> >>,
    << <<"A", "1">>,           ModelB, <<"1", "0", "0", ",", "5">> >>,
    << <<"B", "2">>,           ModelB, <<"1", "0", "0", ",", "5">> >> }

MergeStockRows ==
  { << <<"A", "1">>,      <<"3">> >>,
    << <<" ", "A", "1">>, <<"0">> >>,
    << <<"C", "3">>,      <<"2">> >> }

NoOutput == [ok |-> FALSE, stage |-> "input", records |-> <<>>]

InitMerge ==
  /\ products = {}
  /\ product_views = {}
  /\ data_json = [exists |-> FALSE, parses |-> FALSE, data |-> <<>>]
  /\ products_json = [exists |-> FALSE, last_updated |-> 0]
  /\ now = 1
  /\ last = NoReport
  /\ inv = <<>>
  /\ calc \in
       {[stage    |-> "input",
         price_df |-> Frame(<<H_Artikul, H_Model, H_Tsena>>, pr),
         stock_df |-> Frame(<<H_Artikul, H_Ostatok>>, sr),
         out      |-> NoOutput] :
          pr \in SeqsUpTo(MergePriceRows, MaxMergePriceRows),
          sr \in SeqsUpTo(MergeStockRows, MaxMergeStockRows)}

\* GoogleSheetsSync.sync_data on the sheets drawn
RunSyncData(emptyRaises) ==
  /\ calc.stage = "input"
  /\ calc' = [calc EXCEPT
                !.stage = "sync_data",
                !.out = sync_data([ok |-> TRUE, price_df |-> calc.price_df,
                                   stock_df |-> calc.stock_df], emptyRaises)]
  /\ UNCHANGED <<products, product_views, data_json, products_json, now,
                 last, inv>>

\* DataLoader.process_data on the sheets drawn
RunProcessData(emptyRaises) ==
  /\ calc.stage = "input"
  /\ calc' = [calc EXCEPT
                !.stage = "process_data",
                !.out = process_data(calc.price_df, calc.stock_df,
                                     emptyRaises)]
  /\ UNCHANGED <<products, product_views, data_json, products_json, now,
                 last, inv>>

NextMerge ==
  \/ \E emptyRaises \in BOOLEAN : RunSyncData(emptyRaises)
  \/ \E emptyRaises \in BOOLEAN : RunProcessData(emptyRaises)

SpecMerge == InitMerge /\ [][NextMerge]_vars

\* C8: every record of a merge output has an article that is trimmed and
\* not empty, and no two records of the output share an article.
C8_MergeKeyInvariant ==
  (calc.stage # "input" /\ calc.out.ok) =>
    \A i \in DOMAIN calc.out.records :
      /\ calc.out.records[i].Artikul # <<>>
      /\ strip(calc.out.records[i].Artikul) = calc.out.records[i].Artikul
      /\ \A j \in DOMAIN calc.out.records :
           j # i => calc.out.records[j].Artikul # calc.out.records[i].Artikul

\* the trimmed articles of the rows of a sheet that can be keyed: the cell
\* is present and not empty once trimmed
Keyable(rows) ==
  {strip(str(rows[i][1])) :
     i \in {i \in DOMAIN rows :
              rows[i][1] # NaN /\ strip(str(rows[i][1])) # <<>>}}

\* the parsed quantities of the stock rows for article a
StockQuantities(rows, a) ==
  {parse_quantity(rows[i][2]) :
     i \in {i \in DOMAIN rows :
              rows[i][1] # NaN /\ strip(str(rows[i][1])) = a}}

\* C9: left outer join driven by the pricing side: the articles of the
\* output are the keyable pricing articles (so an article only in the stock
\* sheet never appears); a record without a matching stock row has quantity
\* 0 and the out-of-stock status; a record with matching stock rows carries
\* the parsed quantity of one of them.
C9_LeftOuterJoin ==
  (calc.stage # "input" /\ calc.out.ok) =>
    /\ {calc.out.records[i].Artikul : i \in DOMAIN calc.out.records}
         = Keyable(calc.price_df.rows)
    /\ \A i \in DOMAIN calc.out.records :
         IF StockQuantities(calc.stock_df.rows, calc.out.records[i].Artikul) = {}
         THEN /\ calc.out.records[i].V_nalichii = 0
              /\ calc.out.records[i].Status = StatusLabel(0)
         ELSE calc.out.records[i].V_nalichii \in
                StockQuantities(calc.stock_df.rows, calc.out.records[i].Artikul)

(***************************************************************************)
(* Overlapping sync requests.  Flask serves requests in threads, each with *)
(* its own session and SQLite connection; nothing in routes.py,            *)
(* admin_routes.py or data_service.py takes a lock.  Here                  *)
(* sync_from_sheets runs one statement group at a time for two requests:   *)
(* inv[p] is the invocation of request p,                                  *)
(*   pc        "idle", "loop", "commit", "fallback" or "done"              *)
(*   S         its session                                                 *)
(*   items, i  the batch it iterates and the index of the next entry       *)
(*   batch     "sheets" in the try block, "cache" inside load_from_json    *)
(*   stage     the step of the sheets path that failed ("none" if none)    *)
(*   lost      the tags of the writes a failure rolled back                *)
(*   published the tags of the writes its commit made visible              *)
(*   raised, msg  what the call raised or returned                         *)
(* With SQLite a SELECT outside a transaction reads the committed table;   *)
(* the first INSERT or UPDATE of a session begins its transaction and      *)
(* takes the write lock, held until commit or rollback; a write that finds *)
(* the lock taken waits and fails with "database is locked" at the timeout.*)
(***************************************************************************)
Procs == {1, 2}

MaxStepClock == 3

IdleInvocation ==
  [pc |-> "idle", S |-> FreshSession, items |-> <<>>, i |-> 0,
   batch |-> "none", stage |-> "none", lost |-> <<>>, published |-> <<>>,
   raised |-> FALSE, msg |-> "none"]

\* an exception in the loop or at commit, S1 being the session it leaves:
\* in the try block of sync_from_sheets control passes to the except branch
\* (lines 134-136); inside load_from_json the session is rolled back and the
\* exception re-raised (lines 70-73, 139-140)
Failed(v, S1) ==
  IF v.batch = "sheets"
  THEN [v EXCEPT !.pc = "fallback", !.S = S1, !.stage = "reconcile",
                 !.lost = v.S.log]
  ELSE [v EXCEPT !.pc = "done", !.S = FreshSession, !.raised = TRUE,
                 !.msg = "error", !.lost = v.lost \o v.S.log]

\* the pass over entry v.i once the query's autoflush left session S1
LoopPassed(v, S1, committed) ==
  IF ~S1.active THEN Failed(v, S1)
  ELSE [v EXCEPT !.S  = LoopBodyAfterFlush(S1, committed, v.items[v.i].d,
                                           <<v.batch, v.i>>),
                 !.i  = v.i + 1,
                 !.pc = IF v.i = Len(v.items) THEN "commit" ELSE "loop"]

\* one pass of the loop (lines 86-126, or 24-64 in load_from_json)
LoopPass(v, committed, t) ==
  IF v.items[v.i].kind # "dict" \/ ~v.S.active THEN Failed(v, v.S)
  ELSE LoopPassed(v, Flush(v.S, committed, t), committed)

\* db.session.commit() and the return (lines 128-130, or 66-68), c being
\* what commit() gave
CommitPassed(v, c) ==
  IF c.raised THEN Failed(v, c.S)
  ELSE [v EXCEPT !.pc = "done", !.S = FreshSession, !.published = c.log,
                 !.msg = IF v.batch = "sheets" THEN "synced" ELSE "loaded"]

\* the session's next flush would begin a transaction
NeedsLock(S) ==
  /\ S.active /\ ~S.intx /\ S.pend # <<>>
  /\ IF S.pend[1].isNew THEN TRUE ELSE ChangedColumns(S.pend[1]) # {}

\* request p would have to wait for the write lock of another request
Blocked(p) ==
  /\ NeedsLock(inv[p].S)
  /\ \E q \in Procs \ {p} : inv[q].S.intx

\* sync_from_sheets lines 77-84, r being what sync_data() gave at line 80
Started(r) ==
  IF ~r.ok
  THEN [IdleInvocation EXCEPT !.pc = "fallback", !.stage = r.stage]
  ELSE IF r.records = <<>>
  THEN [IdleInvocation EXCEPT !.pc = "done", !.msg = "no_data"]
  ELSE [IdleInvocation EXCEPT !.pc = "loop", !.batch = "sheets",
                              !.items = Entries(r.records), !.i = 1]

\* POST /api/sync-data (p = 1) or POST /admin/sync (p = 2) arrives and
\* sync_from_sheets runs up to its loop
StartSync(p, sheets) ==
  /\ inv[p].pc \in {"idle", "done"}
  /\ now < MaxStepClock
  /\ now' = now + 1
  /\ inv' = [inv EXCEPT ![p] = Started(sheets.result)]
  /\ UNCHANGED <<products, product_views, data_json, products_json, last,
                 calc>>

\* the lookup of the next entry (with the autoflush of the object the last
\* pass left) and the update or add that follows it
LoopQuery(p) ==
  /\ inv[p].pc = "loop"
  /\ ~Blocked(p)
  /\ inv' = [inv EXCEPT ![p] = LoopPass(inv[p], products, now)]
  /\ UNCHANGED <<products, product_views, data_json, products_json, now,
                 last, calc>>

\* the commit that follows the loop
CommitSync(p) ==
  /\ inv[p].pc = "commit"
  /\ ~Blocked(p)
  /\ inv' = [inv EXCEPT ![p] =
               CommitPassed(inv[p], Commit(inv[p].S, products, now))]
  /\ products' = Commit(inv[p].S, products, now).rows
  /\ UNCHANGED <<product_views, data_json, products_json, now, last, calc>>

\* the wait for the write lock times out: the flush raises OperationalError
LockTimeout(p) ==
  /\ inv[p].pc \in {"loop", "commit"}
  /\ Blocked(p)
  /\ inv' = [inv EXCEPT ![p] = Failed(inv[p], FlushError(inv[p].S))]
  /\ UNCHANGED <<products, product_views, data_json, products_json, now,
                 last, calc>>

\* load_from_json lines 13-22 entered from the except branch, in the
\* session the failure left
FallbackEntered(v, cache) ==
  IF ~cache.exists
  THEN [v EXCEPT !.pc = "done", !.S = FreshSession, !.msg = "json_not_found"]
  ELSE IF ~cache.parses
  THEN [v EXCEPT !.pc = "done", !.S = FreshSession, !.raised = TRUE,
                 !.msg = "error"]
  ELSE [v EXCEPT !.pc = IF cache.data = <<>> THEN "commit" ELSE "loop",
                 !.batch = "cache", !.items = cache.data, !.i = 1]

\* the except branch of sync_from_sheets (lines 134-138)
FallbackStart(p) ==
  /\ inv[p].pc = "fallback"
  /\ inv' = [inv EXCEPT ![p] = FallbackEntered(inv[p], data_json)]
  /\ UNCHANGED <<products, product_views, data_json, products_json, now,
                 last, calc>>

InitSteps ==
  /\ products = {}
  /\ product_views = {}
  /\ data_json \in CacheFiles
  /\ products_json = [exists |-> FALSE, last_updated |-> 0]
  /\ now = 1
  /\ last = NoReport
  /\ inv = [p \in Procs |-> IdleInvocation]
  /\ calc = <<>>

NextSteps ==
  \/ \E p \in Procs : \E sheets \in SyncDataTable : StartSync(p, sheets)
  \/ \E p \in Procs : LoopQuery(p)
  \/ \E p \in Procs : CommitSync(p)
  \/ \E p \in Procs : LockTimeout(p)
  \/ \E p \in Procs : FallbackStart(p)

SpecSteps == InitSteps /\ [][NextSteps]_vars

\* the tags of a whole batch of n entries
FullLog(batch, n) == [k \in 1..n |-> <<batch, k>>]

\* request p commits in this step
Commits(p) ==
  inv[p].pc = "commit" /\ inv'[p].pc = "done" /\ ~inv'[p].raised

C7_SyncsNeverInterleave ==
  \A p, q \in Procs :
    (p # q /\ inv[p].S.pend # <<>> /\ inv[q].S.pend # <<>>) =>
      inv[p].S.pend[1].row.article # inv[q].S.pend[1].row.article

(***************************************************************************)
(* The cell parsers on their own: Init draws a cell, one step runs         *)
(* parse_price or parse_quantity (of either pipeline) on it.               *)
(***************************************************************************)
MaxCellLen == 3

CellAlphabet == {"1", "5", " ", "TAB", ",", ".", "-", "x"}

\* "RUB" is the rouble sign, "ru_sh" and "ru_t" the letters of the unit
PriceExample ==
  <<"1", " ", "2", "3", "4", ",", "5", "0", " ", "RUB">>

CellExamples ==
  { NaN,
    PriceExample,
    <<"3", " ", "ru_sh", "ru_t">>,
    <<"1", " ", "2", "0", "0">>,
    <<"a", "b", "c">> }

Cells == SeqsUpTo(CellAlphabet, MaxCellLen) \cup CellExamples

InitCells ==
  /\ products = {}
  /\ product_views = {}
  /\ data_json = [exists |-> FALSE, parses |-> FALSE, data |-> <<>>]
  /\ products_json = [exists |-> FALSE, last_updated |-> 0]
  /\ now = 1
  /\ last = NoReport
  /\ inv = <<>>
  /\ calc \in {[stage |-> "input", cell |-> c, out |-> 0] : c \in Cells}

\* the cell has been parsed by function fn with result out
Parsed(fn, out) ==
  /\ calc.stage = "input"
  /\ calc' = [calc EXCEPT !.stage = fn, !.out = out]
  /\ UNCHANGED <<products, product_views, data_json, products_json, now,
                 last, inv>>

RunParsePrice == Parsed("parse_price", parse_price(calc.cell))

RunDLParsePrice == Parsed("DL_parse_price", DL_parse_price(calc.cell))

RunParseQuantity == Parsed("parse_quantity", parse_quantity(calc.cell))

RunDLParseQuantity == Parsed("DL_parse_quantity", DL_parse_quantity(calc.cell))

NextCells ==
  \/ RunParsePrice
  \/ RunDLParsePrice
  \/ RunParseQuantity
  \/ RunDLParseQuantity

SpecCells == InitCells /\ [][NextCells]_vars

\* the text of a cell with every blank removed, the comma turned into the
\* decimal point and every character but digits and the point removed
Cleansed(cell) ==
  SelectSeq(Replace(SelectSeq(cell, LAMBDA c : ~IsSpace(c)), ",", "."),
            LAMBDA c : IsDigit(c) \/ c = ".")

\* C11: parse_price returns, for every cell, a number >= 0; 0.0 for an empty
\* or missing cell; otherwise the number read from the cleansed text, or 0.0
\* when that text is no number; "1 234,50 RUB" gives 1234.50.
C11_ParsePriceLenient ==
  calc.stage \in {"parse_price", "DL_parse_price"} =>
    /\ calc.out >= 0
    /\ (calc.cell = NaN \/ calc.cell = <<>>) => calc.out = 0
    /\ calc.cell # NaN =>
         calc.out = IF FloatOfDigitsDots(Cleansed(calc.cell)).ok
                    THEN FloatOfDigitsDots(Cleansed(calc.cell)).v
                    ELSE 0
    /\ calc.cell = PriceExample => calc.out = 123450

\* parse_price has read a cell with a blank, a decimal comma and a sign
C11_Witness ==
  /\ calc.stage = "parse_price"
  /\ calc.cell = PriceExample
  /\ calc.out = 123450

\* C12: parse_quantity returns, for every cell, an integer >= 0, and the
\* floor of what parse_price returns for the same cell (0 for an empty or
\* unparsable cell; 3 for "3 sht", 1200 for "1 200").
C12_ParseQuantityFloors ==
  /\ calc.stage = "parse_quantity" =>
       /\ calc.out >= 0
       /\ calc.out = IntOfFloat(parse_price(calc.cell))
  /\ calc.stage = "DL_parse_quantity" =>
       /\ calc.out >= 0
       /\ calc.out = IntOfFloat(DL_parse_price(calc.cell))

(***************************************************************************)
(* The merge pipelines on the sheets of the end-to-end scenario and on     *)
(* sheets close to them: Init draws one pricing row and at most one stock  *)
(* row, the step is that of the merge specification.                       *)
(***************************************************************************)
A100 == <<"A", "1", "0", "0">>

ScenarioModel ==
  <<"M", "E", "T", "E", "O", "R", " ", "B", "3", "0", " ", "W", "I", "F", "I",
    " ", "H", " ", "2", "4">>

ScenarioPriceRow ==
  << <<" ">> \o A100 \o <<" ">>, ScenarioModel,
     <<"4", "5", " ", "0", "0", "0">> >>

ScenarioStockRow == << A100, <<"3">> >>

ScenarioArticles == {<<" ">> \o A100 \o <<" ">>, A100}

ScenarioModels ==
  { ScenarioModel,
    lower(ScenarioModel),
    <<"M", "E", "T", "E", "O", "R", " ", "C", "3", "0", " ", "H", " ", "2", "4">>,
    ModelA,
    <<"D", "E", "V", "O", "T", "I", "O", "N", " ", "3", "5">> }

ScenarioPrices ==
  { <<"4", "5", " ", "0", "0", "0">>,
    <<"4", "5", "0", "0", "0">>,
    <<"4", "5", " ", "0", "0", "0", ",", "5", "0">> }

ScenarioStocks ==
  { <<>>,
    << ScenarioStockRow >>,
    << << A100, <<"0">> >> >>,
    << << <<"B", "2", "0", "0">>, <<"3">> >> >> }

InitScenario ==
  /\ products = {}
  /\ product_views = {}
  /\ data_json = [exists |-> FALSE, parses |-> FALSE, data |-> <<>>]
  /\ products_json = [exists |-> FALSE, last_updated |-> 0]
  /\ now = 1
  /\ last = NoReport
  /\ inv = <<>>
  /\ calc \in
       {[stage    |-> "input",
         price_df |-> Frame(<<H_Artikul, H_Model, H_Tsena>>, << <<a, m, p>> >>),
         stock_df |-> Frame(<<H_Artikul, H_Ostatok>>, sr),
         out      |-> NoOutput] :
          a \in ScenarioArticles, m \in ScenarioModels, p \in ScenarioPrices,
          sr \in ScenarioStocks}

SpecScenario == InitScenario /\ [][NextMerge]_vars

\* the sheets drawn are those of the scenario and a pipeline has run
ScenarioRan ==
  /\ calc.stage # "input"
  /\ calc.price_df.rows = << ScenarioPriceRow >>
  /\ calc.stock_df.rows = << ScenarioStockRow >>

\* C13: the pricing row {" A100 ", "METEOR B30 WIFI H 24", "45 000"} with the
\* stock row {"A100", "3"} gives exactly one record: article "A100", price
\* 45000.0, quantity 3, in stock, power "24", single-circuit, wifi yes,
\* category meteor, power level medium.
C13_EndToEndScenario ==
  ScenarioRan =>
    /\ calc.out.ok
    /\ Len(calc.out.records) = 1
    /\ calc.out.records[1].Artikul = A100
    /\ calc.out.records[1].Tsena = 4500000
    /\ calc.out.records[1].V_nalichii = 3
    /\ calc.out.records[1].Status = "V nalichii"
    /\ calc.out.records[1].Moshchnost = <<"2", "4">>
    /\ calc.out.records[1].Kontury = "Odnokonturnyj"
    /\ calc.out.records[1].WiFi = "Da"
    /\ calc.out.records[1].Kategoriya = "meteor"
    /\ calc.out.records[1].Uroven_moshchnosti = "medium"

\* GoogleSheetsSync.sync_data has run on the sheets of the scenario
C13_Witness == ScenarioRan /\ calc.stage = "sync_data" /\ calc.out.ok

(***************************************************************************)
(* Claims on the reconciliation of a record set with the store             *)
(***************************************************************************)
\* the record-derived columns of row q, the copies kept in specifications
\* among them, are those of record d
HoldsRecord(q, d) ==
  /\ q.name = d.Model
  /\ q.price = d.Tsena
  /\ q.stock_quantity = d.V_nalichii
  /\ q.in_stock = (d.V_nalichii > 0)
  /\ q.power = d.Moshchnost
  /\ q.contours = d.Kontury
  /\ q.wifi = d.WiFi
  /\ q.status = d.Status
  /\ q.power_level = d.Uroven_moshchnosti
  /\ q.category = d.Kategoriya
  /\ q.image_url = d.Foto
  /\ q.specifications.power = d.Moshchnost
  /\ q.specifications.contours = d.Kontury
  /\ q.specifications.wifi = d.WiFi

\* after the batch `items` was reconciled with `before`, each article of the
\* batch has exactly one row; a row that existed holds the (last) record of
\* its article, a row that did not was created with no views
CreateOrUpdate(before, after, items) ==
  \A i \in DOMAIN items :
    i = LastIndex(items, items[i].d.Artikul) =>
      /\ Cardinality({q \in after : q.article = items[i].d.Artikul}) = 1
      /\ \A q \in after :
           q.article = items[i].d.Artikul =>
             IF \E p \in before : p.article = q.article
             THEN HoldsRecord(q, items[i].d)
             ELSE q.views_count = 0

\* C14: after a successful sync from the sheets the store holds exactly one
\* product for each article of the record set; a product that existed has
\* every record-derived field, the copies of power, contours and wifi in
\* specifications included, equal to the record's value, and a product that
\* did not exist was created with views_count 0.
C14_CreateOrUpdateByArticle ==
  now < MaxClock =>
    \A sheets \in SyncDataTable :
      LET r == sync_from_sheets(products, sheets.result, data_json, now)
      IN  (r.source = "sheets" /\ ~r.raised) =>
            CreateOrUpdate(products, r.rows, Entries(sheets.result.records))


\* the step rewrote temp_kotly_repo/data.json with the record set of the
\* sheets it reconciled with the store
CacheHoldsSyncedSet ==
  \E sheets \in SyncDataTable :
    LET r == sync_from_sheets(products, sheets.result, data_json, now)
    IN  /\ r.source = "sheets"
        /\ ~r.raised
        /\ r.rows = products'
        /\ data_json' = [exists |-> TRUE, parses |-> TRUE,
                         data   |-> Entries(sheets.result.records)]

\* C15: every successful sync from the sheets rewrites the fallback cache
\* (the file load_from_json reads, in the shape it reads) with the record set
\* just synced, so that the cache always holds the last successfully synced
\* set.
C15_CacheHoldsLastSyncedSet ==
  [][(last'.op \in {"sync_data", "admin_sync_data"} /\ last'.ok
        /\ last'.source = "sheets")
       => CacheHoldsSyncedSet]_vars


\* C16: when the fetch of a sync triggered through /api/sync-data or
\* /admin/sync fails and the cache file is missing or unreadable, the
\* invocation ends in failure: the caller is not told of success and the
\* store is unchanged.
C16_NoCacheMeansFailure ==
  [][(last'.op \in {"sync_data", "admin_sync_data"} /\ last'.stage = "fetch"
        /\ (~data_json.exists \/ ~data_json.parses))
       => (~last'.ok /\ products' = products)]_vars


(***************************************************************************)
(* The attribute extractor called on a sequence of model names: calc holds *)
(* the calls made so far, each with the name given and the tuple returned. *)
(***************************************************************************)
MaxCalls == 3

\* model names: those of the sheets above, names with both marks, with no
\* mark, with the wall-mounted word, a missing cell, the empty name and bare
\* marks
ModelNames ==
  { ScenarioModel,
    lower(ScenarioModel),
    <<"M", "E", "T", "E", "O", "R", " ", "C", "3", "0", " ", "H", " ", "2", "4">>,
    ModelA,
    <<"T", "2", " ", "1", "2", "-", "H">>,
    <<"M", "K", " ", "2", "4", "RU_N", " ">>,
    <<"D", "E", "V", "O", "T", "I", "O", "N", " ", "3", "5">>,
    WallMounted \o <<" ", "2", "4">>,
    NaN,
    <<>>,
    <<" ", "H">>,
    <<" ", "C">>,
    <<" ", "C", " ", "H">>,
    <<"(", "H", ")">> }

ExtractInfoTable == [name \in ModelNames |-> extract_info(name)]

DLExtractInfoTable == [name \in ModelNames |-> DL_extract_info(name)]

InitNames ==
  /\ products = {}
  /\ product_views = {}
  /\ data_json = [exists |-> FALSE, parses |-> FALSE, data |-> <<>>]
  /\ products_json = [exists |-> FALSE, last_updated |-> 0]
  /\ now = 1
  /\ last = NoReport
  /\ inv = <<>>
  /\ calc = [stage |-> "calls", calls |-> <<>>]

\* one more call of fn on name has returned out
Called(fn, name, out) ==
  /\ calc.stage = "calls"
  /\ Len(calc.calls) < MaxCalls
  /\ calc' = [calc EXCEPT
                !.calls = Append(@, [fn |-> fn, name |-> name, out |-> out])]
  /\ UNCHANGED <<products, product_views, data_json, products_json, now, last,
                 inv>>

\* a faulty extract_info, which C17 must tell from the real one: wifi is a
\* value kept from the call before
CallExtractInfo_remembers(name) ==
  Called("extract_info", name,
         IF calc.calls = <<>> THEN ExtractInfoTable[name]
         ELSE [ExtractInfoTable[name] EXCEPT
                 !.wifi = calc.calls[Len(calc.calls)].out.wifi])

CallExtractInfo(name) == Called("extract_info", name, ExtractInfoTable[name])

CallDLExtractInfo(name) ==
  Called("DL_extract_info", name, DLExtractInfoTable[name])

NextNames ==
  \/ \E name \in ModelNames : CallExtractInfo(name)
  \/ \E name \in ModelNames : CallDLExtractInfo(name)

SpecNames == InitNames /\ [][NextNames]_vars

TestedName(i) == upper(str(calc.calls[i].name))

\* C18: a model name with neither a single-circuit mark nor a double-circuit
\* mark is classified double-circuit, with or without the wall-mounted word.
C18_ContoursDefault ==
  calc.stage = "calls" =>
    \A i \in DOMAIN calc.calls :
      (~ContainsAny(SingleMarks, TestedName(i))
         /\ ~ContainsAny(DoubleMarks, TestedName(i)))
      => calc.calls[i].out.contours = "Dvuhkonturnyj"

\* C19: a model name with a single-circuit mark is classified single-circuit,
\* also when it holds a double-circuit mark such as the " C" of " C30".
C19_SingleMarkWins ==
  calc.stage = "calls" =>
    \A i \in DOMAIN calc.calls :
      ContainsAny(SingleMarks, TestedName(i))
      => calc.calls[i].out.contours = "Odnokonturnyj"


(***************************************************************************)
(* The column resolver on the header row of a sheet: Init draws the        *)
(* headers (pd.read_csv keeps them distinct) and the role looked for.      *)
(***************************************************************************)
MaxHeaders == 3

\* headers: the four of the sheets above, "Price", "SKU", the Russian words
\* for cost ("Stoimost") and for product code ("Kod tovara"), the header
\* pd.read_csv gives a column without one, and one no alias occurs in
Headers ==
  { H_Artikul, H_Model, H_Tsena, H_Ostatok,
    <<"P", "r", "i", "c", "e">>,
    <<"S", "K", "U">>,
    <<"RU_S", "ru_t", "ru_o", "ru_i", "ru_m", "ru_o", "ru_s", "ru_t", "ru_soft">>,
    <<"RU_K", "ru_o", "ru_d", " ", "ru_t", "ru_o", "ru_v", "ru_a", "ru_r", "ru_a">>,
    <<"U", "n", "n", "a", "m", "e", "d", ":", " ", "0">>,
    <<"N", "o", "t", "e", "s">> }

HeaderRows ==
  {cols \in SeqsUpTo(Headers, MaxHeaders) :
     \A i, j \in DOMAIN cols : cols[i] = cols[j] => i = j}

Roles == {"article", "name", "price", "stock"}

\* the alias list sync_data passes to find_column for a role
AliasesOf(role) ==
  CASE role = "article" -> ArticleAliases
    [] role = "name"    -> NameAliases
    [] role = "price"   -> PriceAliases
    [] role = "stock"   -> StockAliases

\* the alias list process_data passes to DataLoader.find_column for a role
DL_AliasesOf(role) ==
  CASE role = "article" -> DL_ArticleAliases
    [] role = "name"    -> DL_NameAliases
    [] role = "price"   -> DL_PriceAliases
    [] role = "stock"   -> DL_StockAliases

InitHeaders ==
  /\ products = {}
  /\ product_views = {}
  /\ data_json = [exists |-> FALSE, parses |-> FALSE, data |-> <<>>]
  /\ products_json = [exists |-> FALSE, last_updated |-> 0]
  /\ now = 1
  /\ last = NoReport
  /\ inv = <<>>
  /\ calc \in {[stage |-> "input", columns |-> cols, role |-> role,
                aliases |-> <<>>, out |-> None] :
                 cols \in HeaderRows, role \in Roles}

\* function fn has looked for the role among the headers, with the alias
\* list given, and returned out
Resolved(fn, aliases, out) ==
  /\ calc.stage = "input"
  /\ calc' = [calc EXCEPT !.stage = fn, !.aliases = aliases, !.out = out]
  /\ UNCHANGED <<products, product_views, data_json, products_json, now,
                 last, inv>>

RunFindColumn ==
  Resolved("find_column", AliasesOf(calc.role),
           find_column(calc.columns, AliasesOf(calc.role)))

RunDLFindColumn ==
  Resolved("DL_find_column", DL_AliasesOf(calc.role),
           DL_find_column(calc.columns, DL_AliasesOf(calc.role)))

NextHeaders ==
  \/ RunFindColumn
  \/ RunDLFindColumn

SpecHeaders == InitHeaders /\ [][NextHeaders]_vars

\* header i, lower-cased, contains an alias of the list used
HeaderMatches(i) ==
  \E k \in DOMAIN calc.aliases :
    Contains(calc.aliases[k], lower(calc.columns[i]))

\* C20: the resolved header is the first header, in column order, whose
\* lower-cased text contains an alias of the role, whatever the place of that
\* alias in the list; the role is unresolved exactly when no header contains
\* an alias.
C20_FirstMatchInHeaderOrder ==
  calc.stage \in {"find_column", "DL_find_column"} =>
    /\ calc.out = None <=> \A i \in DOMAIN calc.columns : ~HeaderMatches(i)
    /\ \A i \in DOMAIN calc.columns :
         (HeaderMatches(i) /\ \A j \in 1..(i - 1) : ~HeaderMatches(j))
         => calc.out = calc.columns[i]

\* find_column has returned an earlier header that contains only a later
\* alias, while a later header contains an earlier alias
C20_Witness ==
  /\ calc.stage = "find_column"
  /\ \E i, j \in DOMAIN calc.columns : \E k, m \in DOMAIN calc.aliases :
       /\ i < j
       /\ m < k
       /\ calc.out = calc.columns[i]
       /\ Contains(calc.aliases[k], lower(calc.columns[i]))
       /\ \A n \in 1..(k - 1) :
            ~Contains(calc.aliases[n], lower(calc.columns[i]))
       /\ Contains(calc.aliases[m], lower(calc.columns[j]))


(***************************************************************************)
(* The attribute extractor and the classification functions on one value:  *)
(* Init draws the value (a model name, or a power string), one step        *)
(* applies one of the functions to it.                                     *)
(***************************************************************************)
MaxAttrLen == 3

AttrAlphabet == {"1", "2", "0", "3", " ", "-", "H", "C"}

\* model names in which several power patterns, several family markers or
\* a wifi mark occur, and power strings around the bounds of the buckets
AttrExamples ==
  { ScenarioModel, lower(ScenarioModel), ModelA, ModelB, NaN, NotSpecified,
    <<"B", "3", "0", " ", "H", " ", "2", "4">>,
    <<"M", "K", " ", "2", "4", " ", "1", "2", "C">>,
    <<"1", "0", "0", " ", "T", "2", " ", "1", "2">>,
    <<"D", "E", "V", "O", "T", "I", "O", "N", " ", "3", "5">>,
    <<"D", "E", "V", "O", "T", "I", "O", "N">>,
    <<"L", "A", "G", "G", "A", "R", "T", "T", " ", "1", "2", "3", "4">>,
    <<"L", "L", "1", "G", "B", "Q", "2", "4">>,
    <<"L", "N", "1", "G", "B", "Q", "1", "0", "0">>,
    <<"RU_G", "ru_a", "ru_z", " ", "6", "0", "0", "0", " ", "2", "4">>,
    <<"m", "k", " ", "m", "e", "t", "e", "o", "r">>,
    <<"D", "e", "v", "o", "t", "i", "o", "n", " ", "L", "a", "g", "g", "a", "r", "t", "t">>,
    <<"RU_G", "RU_A", "RU_Z", " ", "d", "e", "v", "o", "t", "i", "o", "n", " ", "m", "k">>,
    <<"T", "M", "K", "-", "7">>,
    <<"m", "e", "t", "e", "o", "r", " ", "w", "i", "-", "f", "i">>,
    <<"M", "e", "t", "e", "o", "r", " ", "W", "i", " ", "F", "i", " ", "2", "4">>,
    <<"ru_v", "ru_a", "ru_j", "-", "ru_f", "ru_a", "ru_j">>,
    <<"W", "I", "_", "F", "I">>,
    <<"W", "I", "F", " ", "I">>,
    <<"2", "4", ".", "0">>,
    <<"+", "7">>,
    <<" ", "2", "4", " ">>,
    <<"3", "1">> }

AttrValues == SeqsUpTo(AttrAlphabet, MaxAttrLen) \cup AttrExamples

\* the row of the merged frame whose model cell is the value
AttrRow(model) ==
  [Artikul |-> A100, Model |-> model, Tsena |-> 4500000, V_nalichii |-> 3]

InitAttr ==
  /\ products = {}
  /\ product_views = {}
  /\ data_json = [exists |-> FALSE, parses |-> FALSE, data |-> <<>>]
  /\ products_json = [exists |-> FALSE, last_updated |-> 0]
  /\ now = 1
  /\ last = NoReport
  /\ inv = <<>>
  /\ calc \in {[stage |-> "input", arg |-> v, out |-> <<>>] : v \in AttrValues}

\* function fn has been applied to the value and returned out
Applied(fn, out) ==
  /\ calc.stage = "input"
  /\ calc' = [calc EXCEPT !.stage = fn, !.out = out]
  /\ UNCHANGED <<products, product_views, data_json, products_json, now,
                 last, inv>>

RunExtractInfo == Applied("extract_info", extract_info(calc.arg))

RunDLExtractInfo == Applied("DL_extract_info", DL_extract_info(calc.arg))

RunGetProductCategory ==
  Applied("get_product_category", get_product_category(calc.arg))

RunDLGetProductCategory ==
  Applied("DL_get_product_category", DL_get_product_category(calc.arg))

RunGetPowerLevel == Applied("get_power_level", get_power_level(calc.arg))

RunDLGetPowerLevel ==
  Applied("DL_get_power_level", DL_get_power_level(calc.arg))

RunAddProductFields ==
  Applied("_add_product_fields", AddProductFields(AttrRow(calc.arg)))

RunDLAddProductFields ==
  Applied("DL_add_product_fields", DL_AddProductFields(AttrRow(calc.arg)))

NextAttr ==
  \/ RunExtractInfo
  \/ RunDLExtractInfo
  \/ RunGetProductCategory
  \/ RunDLGetProductCategory
  \/ RunGetPowerLevel
  \/ RunDLGetPowerLevel
  \/ RunAddProductFields
  \/ RunDLAddProductFields

SpecAttr == InitAttr /\ [][NextAttr]_vars

\* the value as extract_info tests it
AttrName == upper(str(calc.arg))

\* what the six power patterns, in the order of the list, find in a name
PowerPatterns(s) ==
  << PowerPattern1(s), PowerPattern2(s), PowerPattern3(s), PowerPattern4(s),
     PowerPattern5(s), PowerPattern6(s) >>

\* power is what the ordered cascade gives for the matches found
CascadeGives(found, bare, power) ==
  /\ \A k \in DOMAIN found :
       (found[k].ok /\ \A j \in 1..(k - 1) : ~found[j].ok)
       => power = found[k].g
  /\ (\A k \in DOMAIN found : ~found[k].ok) =>
       power = IF bare.ok THEN bare.g ELSE NotSpecified

\* C21: the power extracted from a name is the capture group of the first
\* pattern of the list that matches the upper-cased name; when no pattern
\* matches it is the first bare number of two or three digits, and when there
\* is none it is the sentinel.
C21_PowerCascade ==
  calc.stage \in {"extract_info", "DL_extract_info"} =>
    CascadeGives(PowerPatterns(AttrName), BareNumber(AttrName), calc.out.power)

\* extract_info has run on a name that the first and the second pattern
\* match with different digits, and in which a bare number occurs too
C21_Witness ==
  /\ calc.stage = "extract_info"
  /\ PowerPattern1(AttrName).ok
  /\ PowerPattern2(AttrName).ok
  /\ PowerPattern1(AttrName).g # PowerPattern2(AttrName).g
  /\ BareNumber(AttrName).ok
  /\ calc.out.power = PowerPattern1(AttrName).g


\* C22: a power string that parses as the integer n gets the tier low when
\* n <= 20, medium when 20 < n <= 30 and high when n > 30; a string that does
\* not parse gets unknown; a tier is returned for every string.
C22_PowerTierBuckets ==
  calc.stage \in {"get_power_level", "DL_get_power_level"} =>
    /\ calc.out \in {"low", "medium", "high", "unknown"}
    /\ ~IntOf(calc.arg).ok => calc.out = "unknown"
    /\ (IntOf(calc.arg).ok /\ IntOf(calc.arg).v <= 20) => calc.out = "low"
    /\ (IntOf(calc.arg).ok /\ 20 < IntOf(calc.arg).v /\ IntOf(calc.arg).v <= 30)
         => calc.out = "medium"
    /\ (IntOf(calc.arg).ok /\ IntOf(calc.arg).v > 30) => calc.out = "high"

\* get_power_level has run on a string for the bound of two buckets
C22_Witness ==
  /\ calc.stage = "get_power_level"
  /\ calc.arg = <<"3", "0">>
  /\ calc.out = "medium"

\* the family markers in the order get_product_category tests them
FamilyMarkers ==
  << [family |-> "meteor",   markers |-> {<<"m", "e", "t", "e", "o", "r">>}],
     [family |-> "laggartt", markers |-> {<<"l", "a", "g", "g", "a", "r", "t", "t">>,
                                          <<"ru_g", "ru_a", "ru_z">>}],
     [family |-> "devotion", markers |-> {<<"d", "e", "v", "o", "t", "i", "o", "n">>}],
     [family |-> "mk",       markers |-> {<<"m", "k">>}] >>

\* a marker of entry k of the list occurs in the lower-cased value
FamilyOccurs(k) ==
  \E m \in FamilyMarkers[k].markers : Contains(m, lower(str(calc.arg)))

\* C23: the category of a model name is the family of the earliest entry of
\* the marker list (meteor; laggartt or gaz; devotion; mk) with a marker in
\* the lower-cased name, wherever in the name the markers stand, and 'other'
\* when no marker occurs.
C23_CategoryFirstMatch ==
  calc.stage \in {"get_product_category", "DL_get_product_category"} =>
    /\ \A k \in DOMAIN FamilyMarkers :
         (FamilyOccurs(k) /\ \A j \in 1..(k - 1) : ~FamilyOccurs(j))
         => calc.out = FamilyMarkers[k].family
    /\ (\A k \in DOMAIN FamilyMarkers : ~FamilyOccurs(k)) => calc.out = "other"

\* get_product_category has run on a name that starts with the last marker
\* of the list and holds the first one further on
C23_Witness ==
  /\ calc.stage = "get_product_category"
  /\ MatchAt(<<"m", "k">>, lower(str(calc.arg)), 1)
  /\ FamilyOccurs(1)
  /\ calc.out = "meteor"


\* the wifi indicators, in lower case
WifiIndicators ==
  { <<"w", "i", "-", "f", "i">>,
    <<"w", "i", "f", "i">>,
    <<"ru_v", "ru_a", "ru_j", "-", "ru_f", "ru_a", "ru_j">>,
    <<"w", "i", " ", "f", "i">> }

\* C25: the wifi value extracted from a model name is yes exactly when the
\* name, compared without regard to case, contains one of the indicators
\* WI-FI, WIFI, VAJ-FAJ (in Russian letters), WI FI.
C25_WifiFlag ==
  calc.stage \in {"extract_info", "DL_extract_info"} =>
    /\ calc.out.wifi \in {"Da", "Net"}
    /\ calc.out.wifi = "Da" <=>
         \E w \in WifiIndicators : Contains(w, lower(str(calc.arg)))

\* extract_info has run on a name that holds an indicator in mixed case
C25_Witness ==
  /\ calc.stage = "extract_info"
  /\ Contains(<<"W", "i", " ", "F", "i">>, calc.arg)
  /\ calc.out.wifi = "Da"

\* a non-empty string of decimal digits
DigitString(p) == p # <<>> /\ \A i \in DOMAIN p : IsDigit(p[i])

\* C30: the power extracted from a model name is the sentinel or a non-empty
\* string of decimal digits, and the power level of the record built from
\* the name is 'unknown' exactly when its power is the sentinel.
C30_PowerSentinelOrDigits ==
  /\ calc.stage \in {"extract_info", "DL_extract_info"} =>
       (calc.out.power = NotSpecified \/ DigitString(calc.out.power))
  /\ calc.stage \in {"_add_product_fields", "DL_add_product_fields"} =>
       /\ calc.out.Moshchnost = NotSpecified \/ DigitString(calc.out.Moshchnost)
       /\ calc.out.Uroven_moshchnosti = "unknown" <=>
            calc.out.Moshchnost = NotSpecified

\* _add_product_fields has run on a name that holds digits but no power:
\* the power is the sentinel and the level unknown
C30_Witness ==
  /\ calc.stage = "_add_product_fields"
  /\ \E i \in DOMAIN calc.arg : IsDigit(calc.arg[i])
  /\ calc.out.Moshchnost = NotSpecified
  /\ calc.out.Uroven_moshchnosti = "unknown"


(***************************************************************************)
(* Claims on the course of one sync invocation                             *)
(***************************************************************************)
\* C24: a sync invocation runs its stages in order and ends in exactly one
\* terminal outcome.  The store is written only by the commit of an
\* invocation whose record list is complete; an invocation in which a stage
\* failed runs nothing more, except the cache fallback after a failure of the
\* fetch; and an invocation that has ended either raised or returned.
C24_LinearStages ==
  [][/\ products' # products => \E p \in Procs : Commits(p)
     /\ \A p \in Procs :
          /\ inv'[p].pc = "fallback" => inv'[p].stage = "fetch"
          /\ (inv'[p].pc \in {"loop", "commit"} /\ inv'[p].batch = "cache")
               => inv'[p].stage = "fetch"
          /\ inv'[p].pc = "done" =>
               (inv'[p].raised <=> inv'[p].msg = "error")]_vars


(***************************************************************************)
(* The store under product-detail requests, syncs and the admin pages.     *)
(* Two product-detail requests may overlap: each is a query step and a     *)
(* commit step with a session of its own.  inv[p] is the request of        *)
(* process p: [pc, product_id, loaded], loaded being the row its query     *)
(* returned.                                                               *)
(***************************************************************************)
IdleRequest == [pc |-> "idle", product_id |-> 0, loaded |-> NoRow]

\* the sheets the requests of this specification draw: fetched, resolved,
\* at most one pricing row
StoreSyncSheets ==
  {s \in SyncDataTable :
     s.fetch.ok /\ s.result.ok /\ Len(s.fetch.price_df.rows) <= 1}

StoreLoadSheets ==
  {s \in ProcessDataTable :
     s.fetch.ok /\ s.result.ok /\ Len(s.fetch.price_df.rows) <= 1}

\* the forms POSTed to /admin/products/<id>/edit: request.form.get gives
\* None for a field the form does not hold (an unchecked box is not sent)
NoSpecs == [given |-> FALSE, parses |-> FALSE, value |-> [power |-> <<>>]]

EditForms ==
  [name           : {ModelB, None},
   description    : {<<"Kotel">>},
   price          : {<<"4", "5", ".", "5">>, <<"a">>},
   category       : {"mk"},
   image_url      : {"/static/mk.jpg"},
   in_stock       : {None, <<"o", "n">>},
   specifications : {NoSpecs,
                     [NoSpecs EXCEPT !.given = TRUE],
                     [given |-> TRUE, parses |-> TRUE,
                      value |-> [power |-> <<"2", "4">>]]}]

\* admin_edit_product lines 84-89, 95 and 100: the assignments to the row
EditedProduct(product, form, at) ==
  [product EXCEPT
     !.name           = form.name,
     !.description    = form.description,
     !.price          = FloatOf(form.price).v,
     !.category       = form.category,
     !.image_url      = form.image_url,
     !.in_stock       = (form.in_stock # None /\ form.in_stock # <<>>),
     !.specifications = IF form.specifications.given
                        THEN form.specifications.value
                        ELSE product.specifications,
     !.updated_at     = at]

\* admin_edit_product, POST: the row the request commits.  float() raises on
\* a price that is no number and the commit on a NULL name (models.py line
\* 8), and the except branch rolls back; a specifications text that is not
\* JSON returns before the commit
EditCommitted(product, form, at) ==
  IF \/ ~FloatOf(form.price).ok
     \/ form.specifications.given /\ ~form.specifications.parses
     \/ form.name = None
  THEN product
  ELSE EditedProduct(product, form, at)

\* admin_routes.py admin_edit_product: POST /admin/products/<id>/edit
admin_edit_product(product_id, form) ==
  /\ now < MaxClock
  /\ \E product \in products :
       /\ product.id = product_id
       /\ products' = (products \ {product}) \cup
                        {EditCommitted(product, form, now)}
  /\ last' = [NoReport EXCEPT !.op = "admin_edit_product"]
  /\ now' = now + 1
  /\ UNCHANGED <<product_views, data_json, products_json, inv, calc>>

\* admin_routes.py admin_delete_product: POST /admin/products/<id>/delete
admin_delete_product(product_id) ==
  /\ now < MaxClock
  /\ \E product \in products :
       /\ product.id = product_id
       /\ product_views' = {v \in product_views : v.product_id # product_id}
       /\ products' = products \ {product}
  /\ last' = [NoReport EXCEPT !.op = "admin_delete_product"]
  /\ now' = now + 1
  /\ UNCHANGED <<data_json, products_json, inv, calc>>

\* get_product line 70: Product.query.get_or_404(product_id); the request
\* goes on when the row exists
get_product_query(p, product_id) ==
  /\ now < MaxClock
  /\ inv[p].pc = "idle"
  /\ \E product \in products :
       /\ product.id = product_id
       /\ product.views_count < MaxViews
       /\ inv' = [inv EXCEPT ![p] = [pc |-> "loaded",
                                     product_id |-> product_id,
                                     loaded |-> product]]
  /\ UNCHANGED <<products, product_views, data_json, products_json, now,
                 last, calc>>

\* get_product lines 76-85: the view is added, views_count of the loaded
\* object is incremented and the session commits.  The flush writes
\* UPDATE product SET views_count = <loaded value + 1> WHERE id = <id> and
\* the INSERT of the view; an UPDATE that matches no row raises and the
\* transaction is rolled back
get_product_commit(p) ==
  /\ inv[p].pc = "loaded"
  /\ IF \E row \in products : row.id = inv[p].product_id
     THEN LET row == CHOOSE r \in products : r.id = inv[p].product_id
          IN  /\ products' = (products \ {row}) \cup
                   {[row EXCEPT
                       !.views_count = inv[p].loaded.views_count + 1,
                       !.updated_at  = now]}
              /\ product_views' = product_views \cup
                   {[id |-> NextId(product_views),
                     product_id |-> inv[p].product_id,
                     viewed_at |-> now]}
     ELSE UNCHANGED <<products, product_views>>
  /\ inv' = [inv EXCEPT ![p] = IdleRequest]
  /\ last' = [NoReport EXCEPT !.op = "get_product"]
  /\ now' = now + 1
  /\ UNCHANGED <<data_json, products_json, calc>>

InitStore ==
  /\ products = {}
  /\ product_views = {}
  /\ data_json = [exists |-> FALSE, parses |-> FALSE, data |-> <<>>]
  /\ products_json = [exists |-> FALSE, last_updated |-> 0]
  /\ now = 1
  /\ last = NoReport
  /\ inv = [p \in Procs |-> IdleRequest]
  /\ calc = <<>>

NextStore ==
  \/ \E sheets \in StoreSyncSheets : sync_data_route(sheets)
  \/ \E sheets \in StoreLoadSheets : load_data_from_sheets(sheets)
  \/ \E product_id \in 1..2, form \in EditForms :
       admin_edit_product(product_id, form)
  \/ \E product_id \in 1..2 : admin_delete_product(product_id)
  \/ \E p \in Procs, product_id \in 1..2 : get_product_query(p, product_id)
  \/ \E p \in Procs : get_product_commit(p)

SpecStore == InitStore /\ [][NextStore]_vars

\* C26: in every reachable state of the store every product has
\* in_stock = (stock_quantity > 0), and its status is the in-stock label
\* exactly when stock_quantity > 0.
C26_StockFlagConsistency ==
  \A product \in products :
    /\ product.in_stock = (product.stock_quantity > 0)
    /\ (product.status = StatusLabel(1)) <=> (product.stock_quantity > 0)


\* the rows of product_view that record a view of the product with this id
ViewsOf(product_id) == {v \in product_views : v.product_id = product_id}

\* C27: the view counter of every product equals the number of view rows
\* recorded for its id, whatever product-detail requests (two of them
\* overlapping included), syncs and admin deletions came before.
C27_ViewCounterConsistency ==
  \A product \in products :
    product.views_count = Cardinality(ViewsOf(product.id))

\* C28: every view row names the id of an existing product, and for as long
\* as the row exists that id belongs to the product it belonged to before:
\* no step leaves a view row without its product or hands the id of a viewed
\* product to another article, and a request records its view for the
\* product its query returned.
C28_ViewReferentialIntegrity ==
  [][/\ \A v \in product_views' :
          \E product \in products' : product.id = v.product_id
     /\ \A v \in product_views \cap product_views' :
          \A product \in products :
            product.id = v.product_id =>
              \E kept \in products' :
                kept.id = product.id /\ kept.article = product.article
     /\ \A p \in Procs :
          (inv[p].pc = "loaded" /\ inv'[p].pc = "idle"
             /\ product_views' # product_views) =>
            \E product \in products' :
              /\ product.id = inv[p].product_id
              /\ product.article = inv[p].loaded.article]_vars


\* C29: on the same two sheets DataLoader.process_data and
\* GoogleSheetsSync.sync_data either both fail at column resolution or both
\* succeed with the same list of records, image reference included.
C29_PipelinesEquivalent ==
  [][\A emptyRaises \in BOOLEAN :
       /\ RunSyncData(emptyRaises) =>
            calc'.out = process_data(calc.price_df, calc.stock_df,
                                     emptyRaises)
       /\ RunProcessData(emptyRaises) =>
            calc'.out = sync_data([ok |-> TRUE, price_df |-> calc.price_df,
                                   stock_df |-> calc.stock_df],
                                  emptyRaises)]_vars

=============================================================================
